---- MODULE Spec2Model ----
(***************************************************************************)
(* Grid trading engine: grid model, order book, balance tracker, event bus, *)
(* order manager, the backtest loop of the grid strategy (Spec) and its     *)
(* live session with the order status tracker (SpecLive).                  *)
(*                                                                         *)
(* Units.  Crypto quantities are whole lots, prices are whole price units. *)
(* Fiat is counted in units of 1/Scale of (one lot at price one), so that   *)
(* the trade value quantity*price and the fee trading_fee*value are exact  *)
(* integers.  Python float divisions are modelled by floor division; one   *)
(* lot is more than 0.001 coin, so "x > 0.001" reads x >= 1 lot.           *)
(*                                                                         *)
(* Scheduling.  Every action is one run of a task between two suspensions  *)
(* of the asyncio loop.  A coroutine that awaits only the replay backend   *)
(* does not suspend; in the live session the venue calls and notifications *)
(* awaited inside one handler are taken in one step, the venue accepts     *)
(* every order, and the answers to the queries of one poll arrive in the   *)
(* order of the queries.                                                   *)
(***************************************************************************)
EXTENDS Integers, Sequences, FiniteSets, TLC

VARIABLES
    cfg,        \* ConfigManager values, fixed after construction
    ledger,     \* BalanceTracker: balance, crypto_balance, reserved_*, total_fees
    grid,       \* GridManager: price_grids, central_price, sorted_*_grids, grid_levels
    orders,     \* every Order object created, with its OrderBook membership
    strat,      \* GridTradingStrategy fields and the locals of its run loop
    tasks,      \* EventBus: one record per callback task created by a publish
    ready,      \* asyncio ready queue: task indices, 0 is the strategy's main task
    pc,         \* position of the strategy's main task
    bar,        \* the OHLCV row being processed
    pending,    \* simulate_order_fills: orders of the snapshot not yet examined;
                \* live: orders of the tracker's poll whose query is in flight
    now,        \* time.time() in whole seconds
    tracker,    \* OrderStatusTracker: its monitoring task, errors escaped from it
    ghost       \* history: trades emitted, placements made, publishes returned

vars ==
    <<cfg, ledger, grid, orders, strat, tasks, ready, pc, bar, pending, now, tracker, ghost>>

---------------------------------------------------------------------------
\* Bounds of the model

MaxBars == 3
MaxTicks == 2
MaxClock == 1
MaxReports == 2
MaxRejects == 1
Scale == 10

PriceDom == 0..8

\* Program constants
ToleranceDen == 10000
RebalanceThresholdDen == 100
DefaultSpacing == 100

---------------------------------------------------------------------------
\* Helpers

Abs(x) == IF x < 0 THEN -x ELSE x
Max(a, b) == IF a > b THEN a ELSE b
Min(a, b) == IF a < b THEN a ELSE b
Range(s) == {s[i] : i \in DOMAIN s}
InSeq(x, s) == \E i \in DOMAIN s : s[i] = x
Value(quantity, price) == quantity * price * Scale

RECURSIVE SortedSeq(_)
SortedSeq(S) ==
    IF S = {} THEN <<>>
    ELSE LET m == CHOOSE x \in S : \A y \in S : x <= y
         IN <<m>> \o SortedSeq(S \ {m})

---------------------------------------------------------------------------
\* FeeCalculator.calculate_fee: trading_fee * trade_value

CalculateFee(c, trade_value) == (trade_value * c.trading_fee) \div Scale

---------------------------------------------------------------------------
\* GridManager

NoLevel == [state |-> "NONE", paired_buy_level |-> 0, paired_sell_level |-> 0]
GridLevel(state) == [state |-> state, paired_buy_level |-> 0, paired_sell_level |-> 0]

ExtractGridConfig(c, first_price) ==
    IF c.range_mode = "CRYPTO_ZERO"
    THEN LET bottom_range == first_price \div 5
         IN [bottom |-> bottom_range, top |-> first_price + (first_price - bottom_range)]
    ELSE [bottom |-> c.bottom, top |-> c.top]

CalculatePriceGridsAndCentralPrice(c, first_price) ==
    LET r == ExtractGridConfig(c, first_price)
        actual_num_grids == IF c.num_grids % 2 = 0 THEN c.num_grids + 1 ELSE c.num_grids
        all_grids == [i \in 1..actual_num_grids |->
                        r.bottom + ((i - 1) * (r.top - r.bottom)) \div (actual_num_grids - 1)]
        central_index == (actual_num_grids \div 2) + 1
        grids == IF c.num_grids % 2 = 0 /\ c.strategy_type = "SIMPLE_GRID"
                 THEN [i \in 1..(actual_num_grids - 1) |->
                          IF i < central_index THEN all_grids[i] ELSE all_grids[i + 1]]
                 ELSE all_grids
    IN [grids |-> grids, central_price |-> all_grids[central_index]]

InitializeGridsAndLevels(c, first_price) ==
    LET pg == CalculatePriceGridsAndCentralPrice(c, first_price)
        central == pg.central_price
        top_grid == pg.grids[Len(pg.grids)]
        IsBuy(p) == p <= central
        IsSell(p) == p > central
    IN [price_grids |-> pg.grids,
        central_price |-> central,
        sorted_buy_grids |-> IF c.strategy_type = "SIMPLE_GRID"
                             THEN SelectSeq(pg.grids, IsBuy)
                             ELSE SubSeq(pg.grids, 1, Len(pg.grids) - 1),
        sorted_sell_grids |-> IF c.strategy_type = "SIMPLE_GRID"
                              THEN SelectSeq(pg.grids, IsSell)
                              ELSE SubSeq(pg.grids, 2, Len(pg.grids)),
        grid_levels |-> [p \in PriceDom |->
            IF ~InSeq(p, pg.grids) THEN NoLevel
            ELSE IF c.strategy_type = "SIMPLE_GRID"
                 THEN GridLevel(IF p <= central THEN "READY_TO_BUY" ELSE "READY_TO_SELL")
                 ELSE GridLevel(IF p # top_grid THEN "READY_TO_BUY_OR_SELL" ELSE "READY_TO_SELL")]]

GetOrderSizeForGridLevel(c, g, total_balance, grid_price) ==
    LET total_grids == Cardinality({p \in PriceDom : g.grid_levels[p].state # "NONE"})
    IN IF c.order_sizing = "EQUAL_DOLLAR"
       THEN (total_balance \div total_grids) \div (grid_price * Scale)
       ELSE (total_balance \div total_grids) \div (g.central_price * Scale)

GetInitialOrderQuantity(current_fiat_balance, current_crypto_balance, current_price) ==
    LET current_crypto_value_in_fiat == Value(current_crypto_balance, current_price)
        total_portfolio_value == current_fiat_balance + current_crypto_value_in_fiat
        target_crypto_allocation_in_fiat == total_portfolio_value \div 2
        fiat_to_allocate == Max(0, Min(target_crypto_allocation_in_fiat - current_crypto_value_in_fiat,
                                       current_fiat_balance))
    IN fiat_to_allocate \div (current_price * Scale)

CanPlaceOrder(c, level_state, order_side) ==
    IF c.strategy_type = "SIMPLE_GRID"
    THEN IF order_side = "BUY" THEN level_state = "READY_TO_BUY"
         ELSE level_state = "READY_TO_SELL"
    ELSE IF order_side = "BUY" THEN level_state \in {"READY_TO_BUY", "READY_TO_BUY_OR_SELL"}
         ELSE level_state \in {"READY_TO_SELL", "READY_TO_BUY_OR_SELL"}

PairGridLevels(g, source, target, pairing_type) ==
    IF pairing_type = "buy"
    THEN [g EXCEPT !.grid_levels[source].paired_buy_level = target,
                   !.grid_levels[target].paired_sell_level = source]
    ELSE [g EXCEPT !.grid_levels[source].paired_sell_level = target,
                   !.grid_levels[target].paired_buy_level = source]

\* 0 stands for None
GetPairedSellLevel(c, g, buy_price) ==
    IF c.strategy_type = "SIMPLE_GRID"
    THEN LET ok == {p \in Range(g.sorted_sell_grids) :
                       CanPlaceOrder(c, g.grid_levels[p].state, "SELL") /\ p > buy_price}
         IN IF ok = {} THEN 0 ELSE CHOOSE p \in ok : \A q \in ok : p <= q
    ELSE LET above == {p \in Range(g.price_grids) : p > buy_price}
         IN IF above = {} THEN 0 ELSE CHOOSE p \in above : \A q \in above : p <= q

GetGridLevelBelow(g, price) ==
    LET below == {p \in PriceDom : g.grid_levels[p].state # "NONE" /\ p < price}
    IN IF below = {} THEN 0 ELSE CHOOSE p \in below : \A q \in below : q <= p

MarkOrderPending(g, price, order_side) ==
    [g EXCEPT !.grid_levels[price].state =
        IF order_side = "BUY" THEN "WAITING_FOR_BUY_FILL" ELSE "WAITING_FOR_SELL_FILL"]

\* variant: the paired level is left as it is
CompleteOrderLevelOnly(c, g, price, order_side) ==
    IF c.strategy_type = "SIMPLE_GRID"
    THEN [g EXCEPT !.grid_levels[price].state =
             IF order_side = "BUY" THEN "READY_TO_SELL" ELSE "READY_TO_BUY"]
    ELSE [g EXCEPT !.grid_levels[price].state = "READY_TO_BUY_OR_SELL"]

CompleteOrder(c, g, price, order_side) ==
    LET lv == g.grid_levels[price]
    IN IF c.strategy_type = "SIMPLE_GRID"
       THEN [g EXCEPT !.grid_levels[price].state =
                IF order_side = "BUY" THEN "READY_TO_SELL" ELSE "READY_TO_BUY"]
       ELSE LET g1 == [g EXCEPT !.grid_levels[price].state = "READY_TO_BUY_OR_SELL"]
            IN IF order_side = "BUY"
               THEN IF lv.paired_sell_level # 0
                    THEN [g1 EXCEPT !.grid_levels[lv.paired_sell_level].state = "READY_TO_SELL"]
                    ELSE g1
               ELSE IF lv.paired_buy_level # 0
                    THEN [g1 EXCEPT !.grid_levels[lv.paired_buy_level].state = "READY_TO_BUY"]
                    ELSE g1

---------------------------------------------------------------------------
\* BalanceTracker

UpdateAfterBuyOrderFilled(c, l, quantity, price) ==
    LET fee == CalculateFee(c, Value(quantity, price))
        total_cost == Value(quantity, price) + fee
        rf == l.reserved_fiat - total_cost
    IN [l EXCEPT !.reserved_fiat = IF rf < 0 THEN 0 ELSE rf,
                 !.balance = IF rf < 0 THEN l.balance + rf ELSE l.balance,
                 !.crypto_balance = l.crypto_balance + quantity,
                 !.total_fees = l.total_fees + fee]

\* variant: the gross sale value is credited, the fee only recorded
UpdateAfterSellOrderFilledGross(c, l, quantity, price) ==
    LET fee == CalculateFee(c, Value(quantity, price))
    IN [l EXCEPT !.reserved_crypto = IF quantity <= l.reserved_crypto
                                     THEN l.reserved_crypto - quantity ELSE 0,
                 !.crypto_balance = IF quantity <= l.reserved_crypto
                                    THEN l.crypto_balance
                                    ELSE l.crypto_balance - (quantity - l.reserved_crypto),
                 !.balance = l.balance + Value(quantity, price),
                 !.total_fees = l.total_fees + fee]

\* variant: a sell is taken from the reserved crypto only
UpdateAfterSellOrderFilledReservedOnly(c, l, quantity, price) ==
    LET fee == CalculateFee(c, Value(quantity, price))
        sale_proceeds == Value(quantity, price) - fee
    IN [l EXCEPT !.reserved_crypto = IF quantity <= l.reserved_crypto
                                     THEN l.reserved_crypto - quantity ELSE 0,
                 !.balance = l.balance + sale_proceeds,
                 !.total_fees = l.total_fees + fee]

UpdateAfterSellOrderFilled(c, l, quantity, price) ==
    LET fee == CalculateFee(c, Value(quantity, price))
        sale_proceeds == Value(quantity, price) - fee
    IN [l EXCEPT !.reserved_crypto = IF quantity <= l.reserved_crypto
                                     THEN l.reserved_crypto - quantity ELSE 0,
                 !.crypto_balance = IF quantity <= l.reserved_crypto
                                    THEN l.crypto_balance
                                    ELSE l.crypto_balance - (quantity - l.reserved_crypto),
                 !.balance = l.balance + sale_proceeds,
                 !.total_fees = l.total_fees + fee]

\* update_after_initial_purchase (live and paper trading)
UpdateAfterInitialPurchase(c, l, initial_order) ==
    LET total_cost == Value(initial_order.filled, initial_order.price)
        fee == CalculateFee(c, Value(initial_order.amount, initial_order.price))
    IN [l EXCEPT !.crypto_balance = l.crypto_balance + initial_order.filled,
                 !.balance = l.balance - (total_cost + fee),
                 !.total_fees = l.total_fees + fee]

\* quantity * price raises TypeError when the order carries no filled quantity
BalanceUpdateRaises(order) == ~order.complete

UpdateBalanceOnOrderCompletion(c, l, order) ==
    IF order.side = "BUY" THEN UpdateAfterBuyOrderFilled(c, l, order.filled, order.price)
    ELSE UpdateAfterSellOrderFilled(c, l, order.filled, order.price)

CanReserveFundsForBuy(l, amount) == l.balance >= amount
ReserveFundsForBuy(l, amount) ==
    [l EXCEPT !.reserved_fiat = l.reserved_fiat + amount, !.balance = l.balance - amount]

CanReserveFundsForSell(l, quantity) == l.crypto_balance >= quantity
ReserveFundsForSell(l, quantity) ==
    [l EXCEPT !.reserved_crypto = l.reserved_crypto + quantity,
              !.crypto_balance = l.crypto_balance - quantity]

GetAdjustedFiatBalance(l) == l.balance + l.reserved_fiat
GetAdjustedCryptoBalance(l) == l.crypto_balance + l.reserved_crypto
GetTotalBalanceValue(l, price) ==
    GetAdjustedFiatBalance(l) + Value(GetAdjustedCryptoBalance(l), price)

\* variant: only the fiat pool is released
ReleaseFiatOnly(l) ==
    [l EXCEPT !.balance = l.balance + l.reserved_fiat, !.reserved_fiat = 0]

ReleaseAllReservedFunds(l) ==
    [l EXCEPT !.balance = l.balance + l.reserved_fiat,
              !.crypto_balance = l.crypto_balance + l.reserved_crypto,
              !.reserved_fiat = 0, !.reserved_crypto = 0]

---------------------------------------------------------------------------
\* Order and OrderBook.  An order record carries the level it is attached to
\* (0 for a non-grid order) and whether add_order put it into the book.

NewOrder(t, side, order_type, price, amount, filled, level, in_book) ==
    [id |-> t, side |-> side, order_type |-> order_type, price |-> price,
     amount |-> amount, filled |-> filled, remaining |-> amount - filled,
     status |-> "OPEN", level |-> level, in_book |-> in_book]

IsOpen(order) == order.status = "OPEN"
IsFilled(order) == order.status = "CLOSED"

\* get_open_orders: buy_orders + sell_orders, each in insertion order
GetOpenOrders(os) ==
    LET idx == [i \in 1..Len(os) |-> i]
        OpenBuy(i) == os[i].in_book /\ os[i].side = "BUY" /\ IsOpen(os[i])
        OpenSell(i) == os[i].in_book /\ os[i].side = "SELL" /\ IsOpen(os[i])
    IN SelectSeq(idx, OpenBuy) \o SelectSeq(idx, OpenSell)

\* order_to_grid_map holds the orders added with a grid level
InGridMap(os, i) == os[i].in_book /\ os[i].level # 0

\* get_grid_level_for_order: by object, then by identifier in insertion order
GetGridLevelForOrder(os, payload) ==
    IF payload.obj # 0 /\ InGridMap(os, payload.obj)
    THEN os[payload.obj].level
    ELSE LET same == {i \in 1..Len(os) : InGridMap(os, i) /\ os[i].id = payload.id}
         IN IF same = {} THEN 0
            ELSE os[CHOOSE i \in same : \A j \in same : i <= j].level

\* update_order_status: the first order of buy_orders + sell_orders with that id
UpdateOrderStatus(os, order_id, new_status) ==
    LET buys == {i \in 1..Len(os) : os[i].in_book /\ os[i].side = "BUY" /\ os[i].id = order_id}
        sells == {i \in 1..Len(os) : os[i].in_book /\ os[i].side = "SELL" /\ os[i].id = order_id}
        first(S) == CHOOSE i \in S : \A j \in S : i <= j
    IN IF buys # {} THEN [os EXCEPT ![first(buys)].status = new_status]
       ELSE IF sells # {} THEN [os EXCEPT ![first(sells)].status = new_status]
       ELSE os

Payload(os, i) ==
    [obj |-> i, id |-> os[i].id, side |-> os[i].side, order_type |-> os[i].order_type,
     price |-> os[i].price, filled |-> os[i].filled, complete |-> TRUE]

\* the Order built from the venue's report of a closed or cancelled order: a
\* different object with the same identifier; complete is FALSE when the
\* report carries no filled quantity (filled is None)
RemoteOrder(os, i, closed, complete) ==
    [obj |-> 0, id |-> os[i].id, side |-> os[i].side, order_type |-> os[i].order_type,
     price |-> os[i].price,
     filled |-> IF closed /\ complete THEN os[i].amount ELSE 0,
     complete |-> complete]

\* live execution: the venue gives every accepted order its own identifier;
\* the replay backend names it after the second it was created in
AssignIds(c, os) ==
    IF c.trading_mode = "BACKTEST" THEN os
    ELSE [i \in 1..Len(os) |-> [os[i] EXCEPT !.id = -i]]

---------------------------------------------------------------------------
\* OrderValidator: returns the adjusted quantity, 0 when it raises

AdjustAndValidateBuyQuantity(c, balance, order_quantity, price) ==
    IF order_quantity <= 0 THEN 0
    ELSE IF c.validator = "clamp" /\ Value(order_quantity, price) > balance
         THEN Max(0, balance \div (price * Scale))
         ELSE order_quantity

AdjustAndValidateSellQuantity(c, crypto_balance, order_quantity) ==
    IF order_quantity <= 0 THEN 0
    ELSE IF c.validator = "clamp" /\ order_quantity > crypto_balance
         THEN Max(0, crypto_balance)
         ELSE order_quantity

---------------------------------------------------------------------------
\* OrderManager placement.  The operators below transform a world record
\* w = [ledger, grid, orders, placed_ineligible, notified, exc, rejects,
\*      rejected, order_failed]:
\*   notified      a notification was awaited (the coroutine suspended there)
\*   exc           an exception is propagating out of the operator
\*   rejects       the price at which the venue refuses a limit order during
\*                 this run of the handler (OrderExecutionFailedError), 0: none
\*   rejected      the price at which it did refuse one
\*   order_failed  the number of ORDER_FAILED notifications sent
\*   release       the number of calls of release_all_reserved_funds and the
\*                 ledger before and after the last one

World(l, g, os, gh) ==
    [ledger |-> l, grid |-> g, orders |-> os,
     placed_ineligible |-> gh.placed_ineligible, notified |-> FALSE, exc |-> FALSE,
     rejects |-> 0, rejected |-> 0, order_failed |-> gh.order_failed,
     release |-> gh.release]

PlaceBuyOrder(c, w, t, sell_price, buy_price, quantity) ==
    LET adjusted_quantity ==
            AdjustAndValidateBuyQuantity(c, w.ledger.balance, quantity, buy_price)
        g1 == PairGridLevels(w.grid, sell_price, buy_price, "buy")
        eligible == CanPlaceOrder(c, w.grid.grid_levels[buy_price].state, "BUY")
    IN IF adjusted_quantity = 0 THEN [w EXCEPT !.exc = TRUE]
       ELSE IF w.rejects = buy_price THEN [w EXCEPT !.exc = TRUE, !.rejected = buy_price]
       ELSE IF ~CanReserveFundsForBuy(w.ledger, Value(adjusted_quantity, buy_price))
       THEN [w EXCEPT !.grid = g1, !.exc = TRUE,
                      !.orders = Append(@, NewOrder(t, "BUY", "LIMIT", buy_price,
                                                    adjusted_quantity, 0, buy_price, FALSE))]
       ELSE [w EXCEPT !.grid = MarkOrderPending(g1, buy_price, "BUY"),
                      !.ledger = ReserveFundsForBuy(@, Value(adjusted_quantity, buy_price)),
                      !.orders = Append(@, NewOrder(t, "BUY", "LIMIT", buy_price,
                                                    adjusted_quantity, 0, buy_price, TRUE)),
                      !.placed_ineligible = @ \/ ~eligible,
                      !.notified = TRUE]

\* variant: the levels are paired before the venue is asked
PlaceSellOrderPairsFirst(c, w, t, buy_price, sell_price, quantity) ==
    LET adjusted_quantity ==
            AdjustAndValidateSellQuantity(c, w.ledger.crypto_balance, quantity)
        g1 == PairGridLevels(w.grid, buy_price, sell_price, "sell")
        eligible == CanPlaceOrder(c, w.grid.grid_levels[sell_price].state, "SELL")
    IN IF adjusted_quantity = 0 THEN [w EXCEPT !.exc = TRUE]
       ELSE IF w.rejects = sell_price
       THEN [w EXCEPT !.grid = g1, !.exc = TRUE, !.rejected = sell_price]
       ELSE IF ~CanReserveFundsForSell(w.ledger, adjusted_quantity)
       THEN [w EXCEPT !.grid = g1, !.exc = TRUE,
                      !.orders = Append(@, NewOrder(t, "SELL", "LIMIT", sell_price,
                                                    adjusted_quantity, 0, sell_price, FALSE))]
       ELSE [w EXCEPT !.grid = MarkOrderPending(g1, sell_price, "SELL"),
                      !.ledger = ReserveFundsForSell(@, adjusted_quantity),
                      !.orders = Append(@, NewOrder(t, "SELL", "LIMIT", sell_price,
                                                    adjusted_quantity, 0, sell_price, TRUE)),
                      !.placed_ineligible = @ \/ ~eligible,
                      !.notified = TRUE]

PlaceSellOrder(c, w, t, buy_price, sell_price, quantity) ==
    LET adjusted_quantity ==
            AdjustAndValidateSellQuantity(c, w.ledger.crypto_balance, quantity)
        g1 == PairGridLevels(w.grid, buy_price, sell_price, "sell")
        eligible == CanPlaceOrder(c, w.grid.grid_levels[sell_price].state, "SELL")
    IN IF adjusted_quantity = 0 THEN [w EXCEPT !.exc = TRUE]
       ELSE IF w.rejects = sell_price THEN [w EXCEPT !.exc = TRUE, !.rejected = sell_price]
       ELSE IF ~CanReserveFundsForSell(w.ledger, adjusted_quantity)
       THEN [w EXCEPT !.grid = g1, !.exc = TRUE,
                      !.orders = Append(@, NewOrder(t, "SELL", "LIMIT", sell_price,
                                                    adjusted_quantity, 0, sell_price, FALSE))]
       ELSE [w EXCEPT !.grid = MarkOrderPending(g1, sell_price, "SELL"),
                      !.ledger = ReserveFundsForSell(@, adjusted_quantity),
                      !.orders = Append(@, NewOrder(t, "SELL", "LIMIT", sell_price,
                                                    adjusted_quantity, 0, sell_price, TRUE)),
                      !.placed_ineligible = @ \/ ~eligible,
                      !.notified = TRUE]

GetOrCreatePairedBuyLevel(c, g, sell_price) ==
    LET paired_buy_level == g.grid_levels[sell_price].paired_buy_level
    IN IF paired_buy_level # 0
          /\ CanPlaceOrder(c, g.grid_levels[paired_buy_level].state, "BUY")
       THEN paired_buy_level
       ELSE GetGridLevelBelow(g, sell_price)

\* variant: the sell is placed for the whole available crypto balance
HandleBuyOrderCompletionSellsAll(c, w, t, payload, level) ==
    LET g1 == CompleteOrder(c, w.grid, level, "BUY")
        paired_sell_level == GetPairedSellLevel(c, g1, level)
        w1 == [w EXCEPT !.grid = g1]
    IN IF paired_sell_level # 0
          /\ CanPlaceOrder(c, g1.grid_levels[paired_sell_level].state, "SELL")
       THEN PlaceSellOrder(c, w1, t, level, paired_sell_level, w.ledger.crypto_balance)
       ELSE w1

HandleBuyOrderCompletion(c, w, t, payload, level) ==
    LET g1 == CompleteOrder(c, w.grid, level, "BUY")
        paired_sell_level == GetPairedSellLevel(c, g1, level)
        w1 == [w EXCEPT !.grid = g1]
    IN IF paired_sell_level # 0
          /\ CanPlaceOrder(c, g1.grid_levels[paired_sell_level].state, "SELL")
       THEN PlaceSellOrder(c, w1, t, level, paired_sell_level, payload.filled)
       ELSE w1

HandleSellOrderCompletion(c, w, t, payload, level) ==
    LET g1 == CompleteOrder(c, w.grid, level, "SELL")
        paired_buy_level == GetOrCreatePairedBuyLevel(c, g1, level)
        w1 == [w EXCEPT !.grid = g1]
    IN IF paired_buy_level # 0
       THEN PlaceBuyOrder(c, w1, t, level, paired_buy_level, payload.filled)
       ELSE w1

\* _on_order_filled: an exception of the completion is caught and notified
\* as ORDER_FAILED (both except clauses)
OrderManagerOnOrderFilled(c, w, t, payload) ==
    LET level == GetGridLevelForOrder(w.orders, payload)
        r == IF payload.side = "BUY"
             THEN HandleBuyOrderCompletion(c, w, t, payload, level)
             ELSE HandleSellOrderCompletion(c, w, t, payload, level)
    IN IF level = 0 THEN w
       ELSE IF r.exc
       THEN [r EXCEPT !.exc = FALSE, !.notified = TRUE, !.order_failed = @ + 1]
       ELSE r

\* variant: the level is marked pending before the funds are reserved
RECURSIVE InitializeBuyOrdersMarksFirst(_, _, _, _, _)
InitializeBuyOrdersMarksFirst(c, w, t, current_price, i) ==
    IF i > Len(w.grid.sorted_buy_grids) THEN w
    ELSE LET price == w.grid.sorted_buy_grids[i]
             central_price == w.grid.central_price
             total_balance_value == GetTotalBalanceValue(w.ledger, current_price)
             order_quantity ==
                 GetOrderSizeForGridLevel(c, w.grid, total_balance_value, price)
             adjusted == AdjustAndValidateBuyQuantity(c, w.ledger.balance, order_quantity, price)
             next ==
                 IF price >= current_price THEN w
                 ELSE IF Abs(price - central_price) * ToleranceDen < central_price THEN w
                 ELSE IF ~CanPlaceOrder(c, w.grid.grid_levels[price].state, "BUY") THEN w
                 ELSE IF adjusted = 0 THEN [w EXCEPT !.notified = TRUE]
                 ELSE IF w.rejects = price
                 THEN [w EXCEPT !.notified = TRUE, !.rejected = price,
                                !.order_failed = @ + 1]
                 ELSE IF ~CanReserveFundsForBuy(w.ledger, Value(adjusted, price))
                 THEN [w EXCEPT !.notified = TRUE,
                                !.grid = MarkOrderPending(@, price, "BUY"),
                                !.orders = Append(@, NewOrder(t, "BUY", "LIMIT", price,
                                                              adjusted, 0, price, FALSE))]
                 ELSE [w EXCEPT !.ledger = ReserveFundsForBuy(@, Value(adjusted, price)),
                                !.grid = MarkOrderPending(@, price, "BUY"),
                                !.orders = Append(@, NewOrder(t, "BUY", "LIMIT", price,
                                                              adjusted, 0, price, TRUE))]
         IN InitializeBuyOrdersMarksFirst(c, next, t, current_price, i + 1)

\* initialize_grid_orders: the loop over sorted_buy_grids, from index i
RECURSIVE InitializeBuyOrders(_, _, _, _, _)
InitializeBuyOrders(c, w, t, current_price, i) ==
    IF i > Len(w.grid.sorted_buy_grids) THEN w
    ELSE LET price == w.grid.sorted_buy_grids[i]
             central_price == w.grid.central_price
             total_balance_value == GetTotalBalanceValue(w.ledger, current_price)
             order_quantity ==
                 GetOrderSizeForGridLevel(c, w.grid, total_balance_value, price)
             adjusted == AdjustAndValidateBuyQuantity(c, w.ledger.balance, order_quantity, price)
             next ==
                 IF price >= current_price THEN w
                 ELSE IF Abs(price - central_price) * ToleranceDen < central_price THEN w
                 ELSE IF ~CanPlaceOrder(c, w.grid.grid_levels[price].state, "BUY") THEN w
                 ELSE IF adjusted = 0 THEN [w EXCEPT !.notified = TRUE]
                 ELSE IF w.rejects = price
                 THEN [w EXCEPT !.notified = TRUE, !.rejected = price,
                                !.order_failed = @ + 1]
                 ELSE IF ~CanReserveFundsForBuy(w.ledger, Value(adjusted, price))
                 THEN [w EXCEPT !.notified = TRUE,
                                !.orders = Append(@, NewOrder(t, "BUY", "LIMIT", price,
                                                              adjusted, 0, price, FALSE))]
                 ELSE [w EXCEPT !.ledger = ReserveFundsForBuy(@, Value(adjusted, price)),
                                !.grid = MarkOrderPending(@, price, "BUY"),
                                !.orders = Append(@, NewOrder(t, "BUY", "LIMIT", price,
                                                              adjusted, 0, price, TRUE))]
         IN InitializeBuyOrders(c, next, t, current_price, i + 1)

\* variant: a sell is also placed at the current price
RECURSIVE InitializeSellOrdersAtPrice(_, _, _, _, _)
InitializeSellOrdersAtPrice(c, w, t, current_price, i) ==
    IF i > Len(w.grid.sorted_sell_grids) THEN w
    ELSE LET price == w.grid.sorted_sell_grids[i]
             central_price == w.grid.central_price
             total_balance_value == GetTotalBalanceValue(w.ledger, current_price)
             order_quantity ==
                 GetOrderSizeForGridLevel(c, w.grid, total_balance_value, price)
             adjusted == AdjustAndValidateSellQuantity(c, w.ledger.crypto_balance, order_quantity)
             next ==
                 IF price < current_price THEN w
                 ELSE IF Abs(price - central_price) * ToleranceDen < central_price THEN w
                 ELSE IF ~CanPlaceOrder(c, w.grid.grid_levels[price].state, "SELL") THEN w
                 ELSE IF adjusted = 0 THEN [w EXCEPT !.notified = TRUE]
                 ELSE IF w.rejects = price
                 THEN [w EXCEPT !.notified = TRUE, !.rejected = price,
                                !.order_failed = @ + 1]
                 ELSE IF ~CanReserveFundsForSell(w.ledger, adjusted)
                 THEN [w EXCEPT !.notified = TRUE,
                                !.orders = Append(@, NewOrder(t, "SELL", "LIMIT", price,
                                                              adjusted, 0, price, FALSE))]
                 ELSE [w EXCEPT !.ledger = ReserveFundsForSell(@, adjusted),
                                !.grid = MarkOrderPending(@, price, "SELL"),
                                !.orders = Append(@, NewOrder(t, "SELL", "LIMIT", price,
                                                              adjusted, 0, price, TRUE))]
         IN InitializeSellOrdersAtPrice(c, next, t, current_price, i + 1)

\* initialize_grid_orders: the loop over sorted_sell_grids, from index i
RECURSIVE InitializeSellOrders(_, _, _, _, _)
InitializeSellOrders(c, w, t, current_price, i) ==
    IF i > Len(w.grid.sorted_sell_grids) THEN w
    ELSE LET price == w.grid.sorted_sell_grids[i]
             central_price == w.grid.central_price
             total_balance_value == GetTotalBalanceValue(w.ledger, current_price)
             order_quantity ==
                 GetOrderSizeForGridLevel(c, w.grid, total_balance_value, price)
             adjusted == AdjustAndValidateSellQuantity(c, w.ledger.crypto_balance, order_quantity)
             next ==
                 IF price <= current_price THEN w
                 ELSE IF Abs(price - central_price) * ToleranceDen < central_price THEN w
                 ELSE IF ~CanPlaceOrder(c, w.grid.grid_levels[price].state, "SELL") THEN w
                 ELSE IF adjusted = 0 THEN [w EXCEPT !.notified = TRUE]
                 ELSE IF w.rejects = price
                 THEN [w EXCEPT !.notified = TRUE, !.rejected = price,
                                !.order_failed = @ + 1]
                 ELSE IF ~CanReserveFundsForSell(w.ledger, adjusted)
                 THEN [w EXCEPT !.notified = TRUE,
                                !.orders = Append(@, NewOrder(t, "SELL", "LIMIT", price,
                                                              adjusted, 0, price, FALSE))]
                 ELSE [w EXCEPT !.ledger = ReserveFundsForSell(@, adjusted),
                                !.grid = MarkOrderPending(@, price, "SELL"),
                                !.orders = Append(@, NewOrder(t, "SELL", "LIMIT", price,
                                                              adjusted, 0, price, TRUE))]
         IN InitializeSellOrders(c, next, t, current_price, i + 1)

InitializeGridOrders(c, w, t, current_price) ==
    InitializeSellOrders(c, InitializeBuyOrders(c, w, t, current_price, 1), t, current_price, 1)

---------------------------------------------------------------------------
\* GridTradingStrategy: profit tracking (_on_order_filled).  Backtest orders
\* carry no fee, so buy_fee and sell_fee are 0.  Result: [s, exc].

NoCost == [present |-> FALSE, total_cost |-> 0, quantity |-> 0]

StrategyOnOrderFilled(s, g, os, payload) ==
    LET level == GetGridLevelForOrder(os, payload)
        gross == Value(payload.filled, payload.price)
        costs == s.grid_buy_costs
        paired == g.grid_levels[level].paired_buy_level
        lower == {p \in PriceDom : costs[p].present /\ p < level /\ costs[p].quantity > 0}
        buy_price == IF paired # 0 THEN paired
                     ELSE IF lower = {} THEN 0
                     ELSE CHOOSE p \in lower : \A q \in lower : q <= p
        buy_data == costs[buy_price]
        cost_basis == (payload.filled * buy_data.total_cost) \div buy_data.quantity
        left == buy_data.quantity - payload.filled
        init_basis == (payload.filled * s.initial_purchase_cost) \div s.initial_purchase_quantity
        init_left == s.initial_purchase_quantity - payload.filled
    IN IF ~payload.complete
          /\ (level # 0 \/ (payload.side = "BUY" /\ payload.order_type = "MARKET"))
       THEN [s |-> s, exc |-> TRUE]
       ELSE IF level = 0
       THEN IF payload.side = "BUY" /\ payload.order_type = "MARKET"
            THEN [s |-> [s EXCEPT !.initial_purchase_cost = gross,
                                  !.initial_purchase_quantity = payload.filled],
                  exc |-> FALSE]
            ELSE [s |-> s, exc |-> FALSE]
       ELSE IF payload.side = "BUY"
       THEN [s |-> [s EXCEPT !.grid_buy_costs[level] =
                        [present |-> TRUE, total_cost |-> costs[level].total_cost + gross,
                         quantity |-> costs[level].quantity + payload.filled]],
             exc |-> FALSE]
       ELSE IF buy_price # 0 /\ buy_data.present
       THEN IF buy_data.quantity >= payload.filled
            THEN IF buy_data.quantity = 0 THEN [s |-> s, exc |-> TRUE]
                 ELSE [s |-> [s EXCEPT
                          !.cumulative_profit = @ + (gross - cost_basis),
                          !.grid_buy_costs[buy_price] =
                              IF left <= 0 THEN NoCost
                              ELSE [present |-> TRUE,
                                    total_cost |-> buy_data.total_cost - cost_basis,
                                    quantity |-> left]],
                       exc |-> FALSE]
            ELSE [s |-> s, exc |-> FALSE]
       ELSE IF s.initial_purchase_cost # 0 /\ s.initial_purchase_quantity # 0
               /\ s.initial_purchase_quantity >= payload.filled
       THEN [s |-> [s EXCEPT
                !.cumulative_profit = @ + (gross - init_basis),
                !.initial_purchase_quantity = IF init_left <= 0 THEN 0 ELSE init_left,
                !.initial_purchase_cost = IF init_left <= 0 THEN 0 ELSE @ - init_basis],
             exc |-> FALSE]
       ELSE [s |-> s, exc |-> FALSE]

---------------------------------------------------------------------------
\* GridTradingStrategy: dynamic boundary handling

MinGrid(g) == CHOOSE p \in Range(g.price_grids) : \A q \in Range(g.price_grids) : p <= q
MaxGrid(g) == CHOOSE p \in Range(g.price_grids) : \A q \in Range(g.price_grids) : p >= q

\* _cancel_all_pending_orders; clear_all_orders is not a method of OrderBook,
\* the AttributeError is caught after the statuses and the ledger changed
\* variant: the book is emptied after the release
CancelAllAndClear(w) ==
    IF GetOpenOrders(w.orders) = <<>> THEN w
    ELSE [w EXCEPT
            !.orders = [i \in 1..Len(w.orders) |->
                          [w.orders[i] EXCEPT !.in_book = FALSE,
                              !.status = IF w.orders[i].in_book /\ IsOpen(w.orders[i])
                                         THEN "CANCELED" ELSE @]],
            !.ledger = ReleaseAllReservedFunds(@),
            !.release = [n |-> w.release.n + 1, before |-> w.ledger,
                         after |-> ReleaseAllReservedFunds(w.ledger)]]

\* variant: the orders are marked and the reservations kept
CancelAllWithoutRelease(w) ==
    IF GetOpenOrders(w.orders) = <<>> THEN w
    ELSE [w EXCEPT
            !.orders = [i \in 1..Len(w.orders) |->
                          IF w.orders[i].in_book /\ IsOpen(w.orders[i])
                          THEN [w.orders[i] EXCEPT !.status = "CANCELED"]
                          ELSE w.orders[i]]]

\* _cancel_all_pending_orders
CancelAllPendingOrders(w) ==
    IF GetOpenOrders(w.orders) = <<>> THEN w
    ELSE [w EXCEPT
            !.orders = [i \in 1..Len(w.orders) |->
                          IF w.orders[i].in_book /\ IsOpen(w.orders[i])
                          THEN [w.orders[i] EXCEPT !.status = "CANCELED"]
                          ELSE w.orders[i]],
            !.ledger = ReleaseAllReservedFunds(@),
            !.release = [n |-> w.release.n + 1, before |-> w.ledger,
                         after |-> ReleaseAllReservedFunds(w.ledger)]]

ExecuteMarketBuyOrder(l, current_price, crypto_amount) ==
    [l EXCEPT !.balance = l.balance - Value(crypto_amount, current_price),
              !.crypto_balance = l.crypto_balance + crypto_amount]

ExecuteMarketSellOrder(l, current_price, crypto_amount) ==
    [l EXCEPT !.balance = l.balance + Value(crypto_amount, current_price),
              !.crypto_balance = l.crypto_balance - crypto_amount]

\* the signed quantity _rebalance_for_top_boundary trades: > 0 buys, < 0 sells
RebalanceQuantity(l, current_price, available_fiat, available_crypto) ==
    LET crypto_value == Value(available_crypto, current_price)
        total_portfolio_value == GetTotalBalanceValue(l, current_price)
        target_fiat == total_portfolio_value \div 2
        target_crypto_value == total_portfolio_value \div 2
        fiat_excess == available_fiat - target_fiat
        crypto_shortage_value == target_crypto_value - crypto_value
        crypto_to_buy == crypto_shortage_value \div (current_price * Scale)
        crypto_to_sell == (-crypto_shortage_value) \div (current_price * Scale)
    IN IF fiat_excess * RebalanceThresholdDen > total_portfolio_value
          /\ crypto_shortage_value > 0
       THEN (IF crypto_to_buy >= 1 THEN crypto_to_buy ELSE 0)
       ELSE IF crypto_shortage_value * RebalanceThresholdDen < -total_portfolio_value
               /\ fiat_excess < 0
       THEN (IF crypto_to_sell >= 1 THEN -crypto_to_sell ELSE 0)
       ELSE 0

RebalanceForTopBoundary(l, current_price, available_fiat, available_crypto) ==
    LET q == RebalanceQuantity(l, current_price, available_fiat, available_crypto)
    IN IF q > 0 THEN ExecuteMarketBuyOrder(l, current_price, q)
       ELSE IF q < 0 THEN ExecuteMarketSellOrder(l, current_price, -q)
       ELSE l

\* _restart_grid_with_all_funds(current_price, "top")
RestartGridWithAllFunds(c, w, t, current_price) ==
    LET w1 == CancelAllPendingOrders(w)
        l2 == RebalanceForTopBoundary(w1.ledger, current_price,
                                      w1.ledger.balance, w1.ledger.crypto_balance)
        w2 == [w1 EXCEPT !.ledger = l2, !.grid = InitializeGridsAndLevels(c, current_price)]
    IN InitializeGridOrders(c, w2, t, current_price)

CalculateCurrentGridSpacing(g) ==
    IF Len(g.price_grids) < 2 THEN DefaultSpacing
    ELSE LET sorted_grids == SortedSeq(Range(g.price_grids))
         IN Abs(sorted_grids[2] - sorted_grids[1])

\* the while loop of _extend_grid_downward
RECURSIVE NewGridLevels(_, _, _, _, _, _)
NewGridLevels(c, remaining_fiat, dollar_per_grid, new_price, current_spacing, grid_count) ==
    IF remaining_fiat >= dollar_per_grid /\ new_price > 0 /\ grid_count < c.num_grids \div 2
    THEN <<new_price>> \o NewGridLevels(c, remaining_fiat - dollar_per_grid, dollar_per_grid,
                                        new_price - current_spacing, current_spacing,
                                        grid_count + 1)
    ELSE <<>>

\* _setup_profit_taking_for_new_level
SetupProfitTakingForNewLevel(c, g, price) ==
    LET target_sell_price == price + CalculateCurrentGridSpacing(g)
        higher == {p \in PriceDom : g.grid_levels[p].state # "NONE" /\ p > price}
        closest == CHOOSE p \in higher : \A q \in higher :
                      \/ Abs(p - target_sell_price) < Abs(q - target_sell_price)
                      \/ (Abs(p - target_sell_price) = Abs(q - target_sell_price) /\ p <= q)
    IN IF c.strategy_type = "HEDGED_GRID" /\ higher # {}
       THEN [g EXCEPT !.grid_levels[price].paired_sell_level = closest]
       ELSE g

RECURSIVE AddGridLevelsBelow(_, _, _, _)
AddGridLevelsBelow(c, g, new_price_levels, i) ==
    IF i > Len(new_price_levels) THEN g
    ELSE LET price == new_price_levels[i]
             g1 == [g EXCEPT !.price_grids = SortedSeq(Range(@) \cup {price}),
                             !.grid_levels[price] = GridLevel("READY_TO_BUY"),
                             !.sorted_buy_grids = SortedSeq(Range(@) \cup {price})]
         IN AddGridLevelsBelow(c, SetupProfitTakingForNewLevel(c, g1, price),
                               new_price_levels, i + 1)

ExtendGridDownward(c, g, current_price, available_fiat) ==
    LET current_spacing == CalculateCurrentGridSpacing(g)
        current_bottom == MinGrid(g)
        dollar_per_grid == available_fiat \div Max(1, c.num_grids \div 4)
        new_grid_levels == NewGridLevels(c, available_fiat, dollar_per_grid,
                                         current_bottom - current_spacing, current_spacing, 0)
    IN AddGridLevelsBelow(c, g, new_grid_levels, 1)

\* variant: the restart also clears the profit counter
HandleDynamicBoundaryHitClearsProfit(c, w, s, t, current_price) ==
    IF current_price >= MaxGrid(w.grid)
    THEN IF GetTotalBalanceValue(w.ledger, current_price) > 0
         THEN [w |-> RestartGridWithAllFunds(c, w, t, current_price),
               s |-> [s EXCEPT !.grid_buy_costs = [p \in PriceDom |-> NoCost],
                               !.cumulative_profit = 0]]
         ELSE [w |-> w, s |-> s]
    ELSE IF current_price <= MinGrid(w.grid) /\ w.ledger.balance > 0
    THEN [w |-> [w EXCEPT !.grid = ExtendGridDownward(c, @, current_price, w.ledger.balance)],
          s |-> s]
    ELSE [w |-> w, s |-> s]

\* _handle_dynamic_boundary_hit: result [w, s]
HandleDynamicBoundaryHit(c, w, s, t, current_price) ==
    IF current_price >= MaxGrid(w.grid)
    THEN IF GetTotalBalanceValue(w.ledger, current_price) > 0
         THEN [w |-> RestartGridWithAllFunds(c, w, t, current_price),
               s |-> [s EXCEPT !.grid_buy_costs = [p \in PriceDom |-> NoCost]]]
         ELSE [w |-> w, s |-> s]
    ELSE IF current_price <= MinGrid(w.grid) /\ w.ledger.balance > 0
    THEN [w |-> [w EXCEPT !.grid = ExtendGridDownward(c, @, current_price, w.ledger.balance)],
          s |-> s]
    ELSE [w |-> w, s |-> s]

---------------------------------------------------------------------------
\* EventBus

\* subscribers[ORDER_FILLED] in subscription order: OrderManager is constructed
\* from an existing BalanceTracker, the strategy from both; a callback "X"
\* registered by the embedding application raises when invoked
\* variant: the OrderManager subscribed before the BalanceTracker
OrderManagerSubscribedFirst(c) ==
    (IF c.foreign = "first" THEN <<"X">> ELSE <<>>) \o <<"OM", "BT", "GS">>

OrderFilledSubscribers(c) ==
    (IF c.foreign = "first" THEN <<"X">> ELSE <<>>) \o <<"BT", "OM", "GS">>

\* publish: one task per subscriber is created in order, each runs its first
\* step before the publisher is resumed by gather
\* variant: the callbacks are scheduled and the publisher goes on at once
PublishWithoutGather(ts, rq, subs, ev, payload, pub) ==
    [tasks |-> ts \o [i \in 1..Len(subs) |->
                        [cb |-> subs[i], ev |-> ev, payload |-> payload,
                         pub |-> pub, st |-> "ready"]],
     ready |-> <<0>> \o Tail(rq) \o [i \in 1..Len(subs) |-> Len(ts) + i]]

Publish(ts, rq, subs, ev, payload, pub) ==
    [tasks |-> ts \o [i \in 1..Len(subs) |->
                        [cb |-> subs[i], ev |-> ev, payload |-> payload,
                         pub |-> pub, st |-> "ready"]],
     ready |-> Tail(rq) \o [i \in 1..Len(subs) |-> Len(ts) + i] \o <<0>>]

\* NotificationHandler.async_send_notification takes the lock in FIFO order:
\* a coroutine that gets through it has let every earlier notification finish
AfterNotification(ts, notified) ==
    IF notified
    THEN [i \in 1..Len(ts) |-> IF ts[i].st = "suspended" THEN [ts[i] EXCEPT !.st = "done"]
                               ELSE ts[i]]
    ELSE ts

---------------------------------------------------------------------------
\* Configurations and input bars

AllConfigs ==
    [strategy_type : {"SIMPLE_GRID", "HEDGED_GRID"},
     order_sizing : {"EQUAL_DOLLAR", "EQUAL_CRYPTO"},
     risk_mode : {"TAKE_PROFIT_STOP_LOSS", "DYNAMIC"},
     trading_mode : {"BACKTEST", "LIVE"},
     range_mode : {"MANUAL"},
     bottom : {2}, top : {6}, num_grids : {4},
     tp_enabled : {TRUE}, tp_threshold : {7},
     sl_enabled : {TRUE}, sl_threshold : {1},
     trading_fee : {1},
     initial_balance : {1200 * Scale},
     validator : {"clamp", "passthrough"},
     foreign : {"none", "first"},
     first_price : {3, 4}]

\* the configurations explored
Configs ==
    {c \in AllConfigs :
        /\ c.trading_mode = "BACKTEST"
        /\ (c.foreign = "first") = (c.validator = "passthrough")
        /\ (c.order_sizing = "EQUAL_CRYPTO") = (c.first_price = 4)}

\* rows of the replayed data: the low reaches the buy levels {3} or {2, 3}, the
\* high the sell levels {5} or {5, 6}; the close is the low or the high, and
\* a close of 1 (7) is at the stop-loss (take-profit) threshold
BarSet ==
    {b \in [low : {1, 3}, high : {5, 7}, close : {1, 3, 5, 7}] :
        /\ b.close = b.low \/ b.close = b.high
        /\ (b.low = 3 /\ b.high = 5) => b.close = 5
        /\ (b.low = 3 /\ b.high = 7) => b.close = 3
        /\ (b.low = 1 /\ b.high = 7) => b.close = 7}

LiveConfigs ==
    {c \in AllConfigs :
        /\ c.trading_mode = "LIVE" /\ c.risk_mode = "TAKE_PROFIT_STOP_LOSS"
        /\ c.order_sizing = "EQUAL_DOLLAR" /\ c.validator = "passthrough"
        /\ c.foreign = "none" /\ c.first_price = 3}

\* prices of the live ticker
TickerPrices == {3, 5, 7}

FirstBar(c) == [low |-> c.first_price, high |-> c.first_price, close |-> c.first_price]

---------------------------------------------------------------------------
\* Initial state: components constructed, setup_balances and
\* initialize_strategy done, run() about to enter the backtest loop

InitWith(configs, monitoring_task) ==
    /\ cfg \in configs
    /\ tracker = [monitoring_task |-> monitoring_task, cancelled |-> 0, raised |-> FALSE]
    /\ ledger = [balance |-> cfg.initial_balance, crypto_balance |-> 0,
                 reserved_fiat |-> 0, reserved_crypto |-> 0, total_fees |-> 0]
    /\ grid = InitializeGridsAndLevels(cfg, cfg.first_price)
    /\ orders = <<>>
    /\ strat = [running |-> TRUE, grid_orders_initialized |-> FALSE, last_price |-> 0,
                trigger_price |-> grid.central_price, bars |-> 0,
                cumulative_profit |-> 0,
                grid_buy_costs |-> [p \in PriceDom |-> NoCost],
                initial_purchase_cost |-> 0, initial_purchase_quantity |-> 0]
    /\ tasks = <<>>
    /\ ready = IF cfg.trading_mode = "BACKTEST" THEN <<0>> ELSE <<>>
    /\ pc = "idle"
    /\ bar = FirstBar(cfg)
    /\ pending = <<>>
    /\ now = 0
    /\ ghost = [placed_ineligible |-> FALSE, cash_flow |-> 0, crypto_flow |-> 0,
                pubs |-> 0, awaiting |-> 0, stop_published |-> FALSE,
                rejections |-> 0, rejected |-> 0, order_failed |-> 0,
                release |-> [n |-> 0, before |-> ledger, after |-> ledger],
                snapshot |-> <<>>]

Init == InitWith(Configs, "none")

\* live session: the tracker has been started before the first ticker arrives
InitLive == InitWith(LiveConfigs, "running")

\* live session whose tracker is started and stopped by its owner
TrackerConfigs == {c \in LiveConfigs : c.strategy_type = "SIMPLE_GRID"}
InitTracker == InitWith(TrackerConfigs, "none")

---------------------------------------------------------------------------
\* The strategy's main task (_run_backtest)

MainAtHead == ready # <<>> /\ Head(ready) = 0
W0 == World(ledger, grid, orders, ghost)

\* the history variable after a run of placements that ended in world w
Recorded(gh, w) ==
    [gh EXCEPT !.placed_ineligible = w.placed_ineligible,
               !.order_failed = w.order_failed,
               !.release = w.release,
               !.rejected = IF w.rejected # 0 THEN w.rejected ELSE @,
               !.rejections = IF w.rejected # 0 THEN @ + 1 ELSE @]

\* the limit orders the venue may refuse in this run of a handler: the replay
\* backend never raises, the live venue refuses at most MaxRejects orders
\* and only at a level next to the central price: below it a buy of the
\* initial placement with levels placed before and after it, above it the
\* paired sell of a filled buy or the next buy of a filled sell
RefusedLevels == {3, 5}

VenueRejects ==
    IF cfg.trading_mode = "LIVE" /\ ghost.rejections < MaxRejects
    THEN {0} \cup (Range(grid.price_grids) \cap RefusedLevels)
    ELSE {0}

\* trade bookkeeping of the history variable
Bought(gh, quantity, price) ==
    [gh EXCEPT !.cash_flow = @ - Value(quantity, price), !.crypto_flow = @ + quantity]
Sold(gh, quantity, price) ==
    [gh EXCEPT !.cash_flow = @ + Value(quantity, price), !.crypto_flow = @ - quantity]

\* variant: only an upward crossing triggers
TriggerCrossedUpward(last_price, trigger_price, current_price) ==
    last_price <= trigger_price /\ trigger_price <= current_price

\* the condition of _initialize_grid_orders_once
TriggerCrossed(last_price, trigger_price, current_price) ==
    \/ (last_price <= trigger_price /\ trigger_price <= current_price)
    \/ last_price = trigger_price

\* one loop iteration up to its first suspension: the trigger check, the
\* initial market buy (perform_initial_purchase), or the start of simulate_order_fills
BarStart(b) ==
    /\ pc = "idle" /\ MainAtHead /\ strat.running /\ strat.bars < MaxBars
    /\ b \in BarSet \cup {FirstBar(cfg)}
    /\ (strat.bars = 0) = (b = FirstBar(cfg))
    /\ bar' = b
    /\ LET initial_quantity ==
               GetInitialOrderQuantity(ledger.balance, ledger.crypto_balance, b.close)
           buy_order == [NewOrder(now, "BUY", "MARKET", b.close, initial_quantity,
                                  initial_quantity, 0, TRUE) EXCEPT !.status = "CLOSED"]
           os1 == Append(orders, buy_order)
           w == InitializeGridOrders(cfg, W0, now, b.close)
           p == Publish(AfterNotification(tasks, TRUE), ready, OrderFilledSubscribers(cfg),
                        "ORDER_FILLED", Payload(os1, Len(os1)), ghost.pubs + 1)
       IN IF strat.grid_orders_initialized
          THEN /\ pending' = GetOpenOrders(orders)
               /\ ghost' = [ghost EXCEPT !.snapshot = GetOpenOrders(orders)]
               /\ pc' = "simulate"
               /\ strat' = [strat EXCEPT !.bars = @ + 1]
               /\ UNCHANGED <<ledger, grid, orders, tasks, ready>>
          ELSE IF strat.last_price = 0
                  \/ ~TriggerCrossed(strat.last_price, strat.trigger_price, b.close)
          THEN /\ strat' = [strat EXCEPT !.bars = @ + 1, !.last_price = b.close]
               /\ UNCHANGED <<ledger, grid, orders, tasks, ready, pc, pending, ghost>>
          ELSE IF initial_quantity <= 0
          THEN /\ ledger' = w.ledger /\ grid' = w.grid /\ orders' = w.orders
               /\ tasks' = AfterNotification(tasks, w.notified)
               /\ ghost' = [Recorded(ghost, w) EXCEPT !.snapshot = GetOpenOrders(w.orders)]
               /\ strat' = [strat EXCEPT !.bars = @ + 1, !.grid_orders_initialized = TRUE]
               /\ pending' = GetOpenOrders(w.orders)
               /\ pc' = "simulate"
               /\ UNCHANGED ready
          ELSE /\ orders' = os1
               /\ tasks' = p.tasks /\ ready' = p.ready
               /\ ghost' = [Bought(ghost, initial_quantity, b.close) EXCEPT
                               !.pubs = @ + 1, !.awaiting = ghost.pubs + 1]
               /\ strat' = [strat EXCEPT !.bars = @ + 1]
               /\ pc' = "initial_fill"
               /\ UNCHANGED <<ledger, grid, pending>>
    /\ UNCHANGED <<cfg, tracker, now>>

\* resumed after the initial purchase's ORDER_FILLED: initialize_grid_orders,
\* then simulate_order_fills takes its snapshot of the open orders
MainAfterInitialPurchase ==
    /\ pc = "initial_fill" /\ MainAtHead
    /\ LET w == InitializeGridOrders(cfg, W0, now, bar.close)
       IN /\ ledger' = w.ledger /\ grid' = w.grid /\ orders' = w.orders
          /\ tasks' = AfterNotification(tasks, w.notified)
          /\ ghost' = [Recorded(ghost, w) EXCEPT !.awaiting = 0,
                                                  !.snapshot = GetOpenOrders(w.orders)]
          /\ pending' = GetOpenOrders(w.orders)
    /\ strat' = [strat EXCEPT !.grid_orders_initialized = TRUE]
    /\ pc' = "simulate"
    /\ UNCHANGED <<cfg, tracker, ready, bar, now>>

Crossed(order) ==
    \/ /\ order.side = "BUY"
       /\ \E p \in Range(grid.sorted_buy_grids) :
             p = order.price /\ bar.low <= p /\ p <= bar.high
    \/ /\ order.side = "SELL"
       /\ \E p \in Range(grid.sorted_sell_grids) :
             p = order.price /\ bar.low <= p /\ p <= bar.high

\* variant: the fill leaves the order open
SimulateFillKeepsOpen(order) ==
    [order EXCEPT !.filled = order.amount, !.remaining = 0]

\* _simulate_fill
SimulateFill(order) ==
    [order EXCEPT !.filled = order.amount, !.remaining = 0, !.status = "CLOSED"]

\* simulate_order_fills that reads the open orders anew for every fill
MainSimulateRereadsBook ==
    /\ pc = "simulate" /\ MainAtHead
    /\ LET current == GetOpenOrders(orders)
           hits == {k \in 1..Len(current) : Crossed(orders[current[k]])}
           k == CHOOSE i \in hits : \A j \in hits : i <= j
           o == current[k]
           os1 == [orders EXCEPT ![o] = SimulateFill(orders[o])]
           p == Publish(tasks, ready, OrderFilledSubscribers(cfg), "ORDER_FILLED",
                        Payload(os1, o), ghost.pubs + 1)
           gh == IF orders[o].side = "BUY"
                 THEN Bought(ghost, orders[o].amount, orders[o].price)
                 ELSE Sold(ghost, orders[o].amount, orders[o].price)
       IN IF hits = {} \/ ghost.pubs >= 2 * MaxBars + 2
          THEN /\ pending' = <<>>
               /\ pc' = "risk"
               /\ ghost' = [ghost EXCEPT !.awaiting = 0]
               /\ UNCHANGED <<orders, tasks, ready>>
          ELSE /\ orders' = os1
               /\ tasks' = p.tasks /\ ready' = p.ready
               /\ pending' = SubSeq(current, k + 1, Len(current))
               /\ ghost' = [gh EXCEPT !.pubs = @ + 1, !.awaiting = ghost.pubs + 1]
               /\ UNCHANGED pc
    /\ UNCHANGED <<cfg, tracker, ledger, grid, strat, bar, now>>

\* simulate_order_fills: the loop runs to the next order of the snapshot that is
\* crossed, fills it and publishes ORDER_FILLED; without one the loop ends
MainSimulate ==
    /\ pc = "simulate" /\ MainAtHead
    /\ LET hits == {k \in 1..Len(pending) : Crossed(orders[pending[k]])}
           k == CHOOSE i \in hits : \A j \in hits : i <= j
           o == pending[k]
           os1 == [orders EXCEPT ![o] = SimulateFill(orders[o])]
           p == Publish(tasks, ready, OrderFilledSubscribers(cfg), "ORDER_FILLED",
                        Payload(os1, o), ghost.pubs + 1)
           gh == IF orders[o].side = "BUY"
                 THEN Bought(ghost, orders[o].amount, orders[o].price)
                 ELSE Sold(ghost, orders[o].amount, orders[o].price)
       IN IF hits = {}
          THEN /\ pending' = <<>>
               /\ pc' = "risk"
               /\ ghost' = [ghost EXCEPT !.awaiting = 0]
               /\ UNCHANGED <<orders, tasks, ready>>
          ELSE /\ orders' = os1
               /\ tasks' = p.tasks /\ ready' = p.ready
               /\ pending' = SubSeq(pending, k + 1, Len(pending))
               /\ ghost' = [gh EXCEPT !.pubs = @ + 1, !.awaiting = ghost.pubs + 1]
               /\ UNCHANGED pc
    /\ UNCHANGED <<cfg, tracker, ledger, grid, strat, bar, now>>

\* variant: the main task ends after the risk handling
LoopReturns(c, rq) == Tail(rq)

\* the replay loop goes on to the next row; the live ticker callback returns
LoopContinues(c, rq) == IF c.trading_mode = "BACKTEST" THEN rq ELSE Tail(rq)

\* variant: the threshold itself does not trigger
TakeProfitHitAbove(c, current_price) == c.tp_enabled /\ current_price > c.tp_threshold

\* the conditions of _handle_take_profit and _handle_stop_loss
TakeProfitHit(c, current_price) == c.tp_enabled /\ current_price >= c.tp_threshold
StopLossHit(c, current_price) == c.sl_enabled /\ current_price <= c.sl_threshold

\* _handle_take_profit_stop_loss and the end of the loop iteration
MainRisk ==
    /\ pc = "risk" /\ MainAtHead
    /\ LET current_price == bar.close
           r == HandleDynamicBoundaryHit(cfg, W0, strat, now, current_price)
           wc == CancelAllPendingOrders(W0)
           q == IF current_price >= MaxGrid(grid)
                   /\ GetTotalBalanceValue(ledger, current_price) > 0
                THEN RebalanceQuantity(wc.ledger, current_price, wc.ledger.balance,
                                       wc.ledger.crypto_balance)
                ELSE 0
           quantity == GetAdjustedCryptoBalance(ledger)
           os1 == AssignIds(cfg, Append(orders, NewOrder(now, "SELL", "MARKET", current_price,
                                                         quantity, quantity, 0, TRUE)))
           p == Publish(tasks, ready, OrderFilledSubscribers(cfg), "ORDER_FILLED",
                        Payload(os1, Len(os1)), ghost.pubs + 1)
       IN IF cfg.risk_mode = "DYNAMIC"
          THEN /\ ledger' = r.w.ledger /\ grid' = r.w.grid
               /\ orders' = AssignIds(cfg, r.w.orders)
               /\ tasks' = AfterNotification(tasks, r.w.notified)
               /\ ghost' = Recorded(IF q >= 0 THEN Bought(ghost, q, current_price)
                                    ELSE Sold(ghost, -q, current_price), r.w)
               /\ strat' = [r.s EXCEPT !.last_price = current_price]
               /\ pc' = "idle"
               /\ ready' = LoopContinues(cfg, ready)
          ELSE IF TakeProfitHit(cfg, current_price) \/ StopLossHit(cfg, current_price)
          THEN /\ orders' = os1
               /\ tasks' = p.tasks /\ ready' = p.ready
               /\ ghost' = [Sold(ghost, quantity, current_price) EXCEPT
                               !.pubs = @ + 1, !.awaiting = ghost.pubs + 1]
               /\ pc' = "tp_fill"
               /\ UNCHANGED <<ledger, grid, strat>>
          ELSE /\ strat' = [strat EXCEPT !.last_price = current_price]
               /\ pc' = "idle"
               /\ ready' = LoopContinues(cfg, ready)
               /\ UNCHANGED <<ledger, grid, orders, tasks, ghost>>
    /\ UNCHANGED <<cfg, tracker, bar, pending, now>>

\* resumed after the TP/SL sell's ORDER_FILLED: the notification, STOP_BOT,
\* the loop breaks and run() clears _running
MainAfterTakeProfit ==
    /\ pc = "tp_fill" /\ MainAtHead
    /\ tasks' = AfterNotification(tasks, TRUE)
    /\ ghost' = [ghost EXCEPT !.awaiting = 0, !.stop_published = TRUE]
    /\ strat' = [strat EXCEPT !.running = FALSE]
    /\ pc' = "done"
    /\ ready' = Tail(ready)
    /\ UNCHANGED <<cfg, tracker, ledger, grid, orders, bar, pending, now>>

\* the data is exhausted: the loop ends and run() clears _running
MainEnd ==
    /\ pc = "idle" /\ MainAtHead /\ orders # <<>>
    /\ strat' = [strat EXCEPT !.running = FALSE]
    /\ pc' = "done"
    /\ ready' = Tail(ready)
    /\ UNCHANGED <<cfg, tracker, ledger, grid, orders, tasks, bar, pending, now, ghost>>

---------------------------------------------------------------------------
\* Callback tasks (_invoke_callback)

HeadTask(cb) == ready # <<>> /\ Head(ready) # 0 /\ tasks[Head(ready)].cb = cb

\* BalanceTracker._update_balance_on_order_completion
RunBalanceTracker ==
    /\ HeadTask("BT")
    /\ LET order == tasks[Head(ready)].payload
       IN IF BalanceUpdateRaises(order)
          THEN /\ tasks' = [tasks EXCEPT ![Head(ready)].st = "failed"]
               /\ UNCHANGED ledger
          ELSE /\ ledger' = UpdateBalanceOnOrderCompletion(cfg, ledger, order)
               /\ tasks' = [tasks EXCEPT ![Head(ready)].st = "done"]
    /\ ready' = Tail(ready)
    /\ UNCHANGED <<cfg, tracker, grid, orders, strat, pc, bar, pending, now, ghost>>

\* OrderManager._on_order_filled, up to the notification it awaits
RunOrderManager ==
    /\ HeadTask("OM")
    /\ \E rej \in VenueRejects :
          LET w == OrderManagerOnOrderFilled(cfg, [W0 EXCEPT !.rejects = rej], now,
                                             tasks[Head(ready)].payload)
          IN /\ ledger' = w.ledger /\ grid' = w.grid /\ orders' = AssignIds(cfg, w.orders)
             /\ ghost' = Recorded(ghost, w)
             /\ tasks' = [tasks EXCEPT ![Head(ready)].st =
                             IF w.notified THEN "suspended" ELSE "done"]
    /\ ready' = Tail(ready)
    /\ UNCHANGED <<cfg, tracker, strat, pc, bar, pending, now>>

\* GridTradingStrategy._on_order_filled
RunStrategy ==
    /\ HeadTask("GS")
    /\ LET r == StrategyOnOrderFilled(strat, grid, orders, tasks[Head(ready)].payload)
       IN /\ strat' = r.s
          /\ tasks' = [tasks EXCEPT ![Head(ready)].st = IF r.exc THEN "failed" ELSE "done"]
    /\ ready' = Tail(ready)
    /\ UNCHANGED <<cfg, tracker, ledger, grid, orders, pc, bar, pending, now, ghost>>

\* variant: the exception leaves the callback task and takes the delivery
\* down with it, the callbacks still waiting are cancelled
RunForeignUncaught ==
    /\ HeadTask("X")
    /\ tasks' = [i \in 1..Len(tasks) |->
                    IF i = Head(ready) THEN [tasks[i] EXCEPT !.st = "failed"]
                    ELSE IF tasks[i].pub = tasks[Head(ready)].pub /\ tasks[i].st = "ready"
                    THEN [tasks[i] EXCEPT !.st = "cancelled"]
                    ELSE tasks[i]]
    /\ ready' = SelectSeq(Tail(ready),
                          LAMBDA i : i = 0 \/ tasks[i].pub # tasks[Head(ready)].pub)
    /\ UNCHANGED <<cfg, tracker, ledger, grid, orders, strat, pc, bar, pending, now, ghost>>

\* a raising callback: _invoke_callback catches and logs the exception
RunForeign ==
    /\ HeadTask("X")
    /\ tasks' = [tasks EXCEPT ![Head(ready)].st = "failed"]
    /\ ready' = Tail(ready)
    /\ UNCHANGED <<cfg, tracker, ledger, grid, orders, strat, pc, bar, pending, now, ghost>>

\* the executor finishes the oldest pending notification; its coroutine returns
NotificationDone ==
    /\ \E i \in 1..Len(tasks) : tasks[i].st = "suspended"
    /\ LET i == CHOOSE i \in 1..Len(tasks) :
                   /\ tasks[i].st = "suspended"
                   /\ \A j \in 1..Len(tasks) : tasks[j].st = "suspended" => i <= j
       IN tasks' = [tasks EXCEPT ![i].st = "done"]
    /\ UNCHANGED <<cfg, tracker, ledger, grid, orders, strat, ready, pc, bar, pending, now, ghost>>

\* a second of wall-clock time passes (int(time.time()) of the order ids);
\* a bar is processed well within one second, and the clock is only read to
\* tell the ids of orders apart, so it starts with the first order
Tick ==
    /\ now < MaxClock
    /\ pc = "idle" /\ MainAtHead /\ orders # <<>>
    /\ now' = now + 1
    /\ UNCHANGED <<cfg, tracker, ledger, grid, orders, strat, tasks, ready, pc, bar, pending, ghost>>

Next ==
    \/ \E b \in BarSet \cup {FirstBar(cfg)} : BarStart(b)
    \/ MainAfterInitialPurchase
    \/ MainSimulate
    \/ MainRisk
    \/ MainAfterTakeProfit
    \/ MainEnd
    \/ RunBalanceTracker
    \/ RunOrderManager
    \/ RunStrategy
    \/ RunForeign
    \/ NotificationDone
    \/ Tick

Spec == Init /\ [][Next]_vars

---------------------------------------------------------------------------
\* Live session: ticker callback (_run_live_or_paper_trading.on_ticker_update)
\* and OrderStatusTracker

\* publish_sync: the callbacks are scheduled on the loop, nobody waits for them
PublishSync(ts, rq, subs, ev, payload, pub) ==
    [tasks |-> ts \o [i \in 1..Len(subs) |->
                        [cb |-> subs[i], ev |-> ev, payload |-> payload,
                         pub |-> pub, st |-> "ready"]],
     ready |-> rq \o [i \in 1..Len(subs) |-> Len(ts) + i]]

\* subscribers[ORDER_CANCELLED]: OrderManager._on_order_cancelled
OrderCancelledSubscribers == <<"OMC">>

\* perform_initial_purchase in live mode: the venue reports the market buy as
\* filled (CLOSED) or as still OPEN; update_after_initial_purchase refuses the
\* latter and the ValueError is caught and notified
PerformInitialPurchase(c, w, t, current_price, venue_status) ==
    LET initial_quantity ==
            GetInitialOrderQuantity(w.ledger.balance, w.ledger.crypto_balance, current_price)
        buy_order == [NewOrder(t, "BUY", "MARKET", current_price, initial_quantity,
                               initial_quantity, 0, TRUE) EXCEPT !.status = venue_status]
    IN IF initial_quantity <= 0 THEN w
       ELSE [w EXCEPT !.orders = Append(@, buy_order),
                      !.notified = TRUE,
                      !.ledger = IF venue_status = "CLOSED"
                                 THEN UpdateAfterInitialPurchase(c, @, buy_order)
                                 ELSE @]

\* a ticker delivery that does not wait for the running callback
TickerUpdateWhileExecuting(p) ==
    /\ strat.running /\ strat.bars < MaxTicks
    /\ p \in TickerPrices
    /\ bar' = [low |-> p, high |-> p, close |-> p]
    /\ strat' = [strat EXCEPT !.bars = @ + 1]
    /\ ready' = Append(ready, 0)
    /\ pc' = "ticker"
    /\ UNCHANGED <<cfg, tracker, ledger, grid, orders, tasks, pending, now, ghost>>

\* the exchange service delivers a ticker price: the callback is scheduled.
\* The service awaits the callback before it reads the next ticker, and then
\* reads the latest one
TickerUpdate(p) ==
    /\ pc = "idle" /\ ~InSeq(0, ready) /\ strat.running /\ strat.bars < MaxTicks
    /\ p \in TickerPrices
    /\ bar' = [low |-> p, high |-> p, close |-> p]
    /\ strat' = [strat EXCEPT !.bars = @ + 1]
    /\ ready' = Append(ready, 0)
    /\ pc' = "ticker"
    /\ UNCHANGED <<cfg, tracker, ledger, grid, orders, tasks, pending, now, ghost>>

\* on_ticker_update up to _handle_take_profit_stop_loss
MainTicker(venue_status, rej) ==
    /\ pc = "ticker" /\ MainAtHead
    /\ venue_status \in {"CLOSED", "OPEN"}
    /\ rej \in VenueRejects
    /\ LET current_price == bar.close
           w1 == PerformInitialPurchase(cfg, [W0 EXCEPT !.rejects = rej], now,
                                        current_price, venue_status)
           w2 == InitializeGridOrders(cfg, w1, now, current_price)
       IN IF strat.grid_orders_initialized
          THEN /\ venue_status = "CLOSED" /\ rej = 0
               /\ pc' = "risk"
               /\ UNCHANGED <<ledger, grid, orders, strat, tasks, ready, ghost>>
          ELSE IF strat.last_price = 0
                  \/ ~TriggerCrossed(strat.last_price, strat.trigger_price, current_price)
          THEN /\ venue_status = "CLOSED" /\ rej = 0
               /\ strat' = [strat EXCEPT !.last_price = current_price]
               /\ pc' = "idle"
               /\ ready' = Tail(ready)
               /\ UNCHANGED <<ledger, grid, orders, tasks, ghost>>
          ELSE /\ ledger' = w2.ledger /\ grid' = w2.grid
               /\ orders' = AssignIds(cfg, w2.orders)
               /\ tasks' = AfterNotification(tasks, w2.notified)
               /\ ghost' = Recorded(ghost, w2)
               /\ strat' = [strat EXCEPT !.grid_orders_initialized = TRUE]
               /\ pc' = "risk"
               /\ UNCHANGED ready
    /\ UNCHANGED <<cfg, tracker, bar, pending, now>>

\* _process_open_orders: one query task per open order of the book
TrackerPoll ==
    /\ tracker.monitoring_task = "running"
    /\ strat.running /\ pending = <<>>
    /\ GetOpenOrders(orders) # <<>>
    /\ pending' = GetOpenOrders(orders)
    /\ UNCHANGED <<cfg, tracker, ledger, grid, orders, strat, tasks, ready, pc, bar, now, ghost>>

\* what the venue reports for a polled order: its status, whether the report
\* carries a filled quantity at all, and whether an order still OPEN has been
\* filled in part (filled > 0)
RemoteReports ==
    {r \in [status : {"OPEN", "CLOSED", "CANCELED", "UNKNOWN"}, complete : BOOLEAN,
            partial : BOOLEAN] :
        /\ r.status # "CLOSED" => r.complete
        /\ r.partial => r.status = "OPEN"}

\* _handle_order_status_change that takes a report without status for a
\* cancellation
TrackerResponseCancelsUnknown(r) ==
    /\ pending # <<>>
    /\ r \in RemoteReports
    /\ r.status \in {"CLOSED", "CANCELED", "UNKNOWN"} => ghost.pubs < MaxReports
    /\ LET o == Head(pending)
           remote_order == RemoteOrder(orders, o, r.status = "CLOSED", r.complete)
           filled == PublishSync(tasks, ready, OrderFilledSubscribers(cfg), "ORDER_FILLED",
                                 remote_order, ghost.pubs + 1)
           cancelled == PublishSync(tasks, ready, OrderCancelledSubscribers,
                                    "ORDER_CANCELLED", remote_order, ghost.pubs + 1)
       IN /\ pending' = Tail(pending)
          /\ IF r.status = "CLOSED"
             THEN /\ orders' = UpdateOrderStatus(orders, remote_order.id, "CLOSED")
                  /\ tasks' = filled.tasks /\ ready' = filled.ready
                  /\ ghost' = [ghost EXCEPT !.pubs = @ + 1]
             ELSE IF r.status \in {"CANCELED", "UNKNOWN"}
             THEN /\ orders' = UpdateOrderStatus(orders, remote_order.id, "CANCELED")
                  /\ tasks' = cancelled.tasks /\ ready' = cancelled.ready
                  /\ ghost' = [ghost EXCEPT !.pubs = @ + 1]
             ELSE UNCHANGED <<orders, tasks, ready, ghost>>
    /\ UNCHANGED <<cfg, tracker, ledger, grid, strat, pc, bar, now>>

\* _query_and_handle_order: the venue's answer for one polled order arrives
\* and _handle_order_status_change acts on it
TrackerResponse(r) ==
    /\ pending # <<>>
    /\ r \in RemoteReports
    /\ r.status \in {"CLOSED", "CANCELED"} => ghost.pubs < MaxReports
    /\ LET o == Head(pending)
           remote_order == RemoteOrder(orders, o, r.status = "CLOSED", r.complete)
           filled == PublishSync(tasks, ready, OrderFilledSubscribers(cfg), "ORDER_FILLED",
                                 remote_order, ghost.pubs + 1)
           cancelled == PublishSync(tasks, ready, OrderCancelledSubscribers,
                                    "ORDER_CANCELLED", remote_order, ghost.pubs + 1)
       IN /\ pending' = Tail(pending)
          /\ IF r.status = "CLOSED"
             THEN /\ orders' = UpdateOrderStatus(orders, remote_order.id, "CLOSED")
                  /\ tasks' = filled.tasks /\ ready' = filled.ready
                  /\ ghost' = [ghost EXCEPT !.pubs = @ + 1]
             ELSE IF r.status = "CANCELED"
             THEN /\ orders' = UpdateOrderStatus(orders, remote_order.id, "CANCELED")
                  /\ tasks' = cancelled.tasks /\ ready' = cancelled.ready
                  /\ ghost' = [ghost EXCEPT !.pubs = @ + 1]
             ELSE \* UNKNOWN (the ValueError is caught and logged), OPEN with or
                  \* without a partial fill: logged only
                  UNCHANGED <<orders, tasks, ready, ghost>>
    /\ UNCHANGED <<cfg, tracker, ledger, grid, strat, pc, bar, now>>

\* OrderManager._on_order_cancelled: only the notification
RunOrderCancelled ==
    /\ HeadTask("OMC")
    /\ tasks' = [tasks EXCEPT ![Head(ready)].st = "suspended"]
    /\ ready' = Tail(ready)
    /\ UNCHANGED <<cfg, tracker, ledger, grid, orders, strat, pc, bar, pending, now, ghost>>

NextLive ==
    \/ \E p \in TickerPrices : TickerUpdate(p)
    \/ \E venue_status \in {"CLOSED", "OPEN"}, rej \in PriceDom :
          MainTicker(venue_status, rej)
    \/ MainRisk
    \/ MainAfterTakeProfit
    \/ TrackerPoll
    \/ \E r \in RemoteReports : TrackerResponse(r)
    \/ RunBalanceTracker
    \/ RunOrderManager
    \/ RunStrategy
    \/ RunOrderCancelled
    \/ NotificationDone

SpecLive == InitLive /\ [][NextLive]_vars

---------------------------------------------------------------------------
\* OrderStatusTracker life cycle.  monitoring_task is "none" (no task, or the
\* attribute is None), "running" (the polling task is alive) or "cancelling"
\* (stop_tracking has cancelled it and awaits it); the query tasks of
\* _active_tasks are the entries of pending.

\* start_tracking: a task that is not done is left alone
StartTracking ==
    /\ tracker' = IF tracker.monitoring_task # "none" THEN tracker
                  ELSE [tracker EXCEPT !.monitoring_task = "running", !.cancelled = 0]
    /\ UNCHANGED <<cfg, ledger, grid, orders, strat, tasks, ready, pc, bar, pending, now, ghost>>

\* stop_tracking that cancels the polling task only
StopTrackingKeepsQueries ==
    /\ tracker.monitoring_task # "cancelling"
    /\ tracker' = IF tracker.monitoring_task = "none" THEN tracker
                  ELSE [tracker EXCEPT !.monitoring_task = "cancelling"]
    /\ UNCHANGED <<cfg, ledger, grid, orders, strat, tasks, ready, pc, bar, pending, now, ghost>>

\* stop_tracking up to `await self._monitoring_task`: nothing to do without a
\* task; otherwise the task is cancelled, and the cancellation reaches the
\* gather of _process_open_orders and through it every query task
StopTracking ==
    /\ tracker.monitoring_task # "cancelling"
    /\ IF tracker.monitoring_task = "none"
       THEN UNCHANGED <<tracker, pending>>
       ELSE /\ tracker' = [tracker EXCEPT !.monitoring_task = "cancelling",
                                          !.cancelled = Len(pending)]
            /\ pending' = <<>>
    /\ UNCHANGED <<cfg, ledger, grid, orders, strat, tasks, ready, pc, bar, now, ghost>>

\* the polling task has handled its CancelledError (_cancel_active_tasks) and
\* ended; stop_tracking resumes, clears _active_tasks and the task attribute
StopTrackingDone ==
    /\ tracker.monitoring_task = "cancelling"
    /\ tracker' = [tracker EXCEPT !.monitoring_task = "none"]
    /\ pending' = <<>>
    /\ UNCHANGED <<cfg, ledger, grid, orders, strat, tasks, ready, pc, bar, now, ghost>>

\* the venue of this session refuses no order
NextTracker ==
    \/ \E p \in TickerPrices : TickerUpdate(p)
    \/ \E venue_status \in {"CLOSED", "OPEN"} : MainTicker(venue_status, 0)
    \/ MainRisk
    \/ MainAfterTakeProfit
    \/ StartTracking
    \/ TrackerPoll
    \/ \E r \in RemoteReports : TrackerResponse(r)
    \/ StopTracking
    \/ StopTrackingDone
    \/ RunBalanceTracker
    \/ RunOrderManager
    \/ RunStrategy
    \/ RunOrderCancelled
    \/ NotificationDone

SpecTracker == InitTracker /\ [][NextTracker]_vars

---------------------------------------------------------------------------
\* Properties

\* every fill emitted so far has been applied by the BalanceTracker
LedgerSettled == \A i \in 1..Len(tasks) : tasks[i].cb = "BT" => tasks[i].st # "ready"

\* no callback task is waiting to run
HandlersIdle == \A i \in 1..Len(tasks) : tasks[i].st # "ready"

\* C1: all four ledger fields are non-negative in every reachable state
LedgerNonNegative ==
    /\ ledger.balance >= 0 /\ ledger.crypto_balance >= 0
    /\ ledger.reserved_fiat >= 0 /\ ledger.reserved_crypto >= 0

\* C2: conservation - once the emitted fills are applied, the total value at
\* any price P plus the fees paid equals the initial deposit plus the signed
\* flows of the trades (fiat paid and received, crypto acquired valued at P);
\* reservations and releases only move value between fields
Conservation ==
    LedgerSettled =>
        \A P \in PriceDom :
            GetTotalBalanceValue(ledger, P) + ledger.total_fees
                = cfg.initial_balance + ghost.cash_flow + Value(ghost.crypto_flow, P)

ConservationWitness ==
    /\ LedgerSettled
    /\ ledger.total_fees > 0 /\ ledger.reserved_fiat > 0 /\ ledger.reserved_crypto > 0
    /\ \E i \in 1..Len(orders) :
          orders[i].order_type = "LIMIT" /\ orders[i].side = "SELL" /\ IsFilled(orders[i])
    /\ \E i \in 1..Len(orders) :
          orders[i].order_type = "LIMIT" /\ orders[i].side = "BUY" /\ IsFilled(orders[i])

RECURSIVE OpenBuyCost(_, _)
OpenBuyCost(os, n) ==
    IF n = 0 THEN 0
    ELSE OpenBuyCost(os, n - 1)
         + (IF os[n].in_book /\ IsOpen(os[n]) /\ os[n].side = "BUY" /\ os[n].level # 0
            THEN Value(os[n].amount, os[n].price) ELSE 0)

\* C3: reserved funds are not double-spent - once the emitted fills are
\* applied, the fiat reserved still covers every open grid buy order in full
ReservedFiatCoversOpenBuys ==
    LedgerSettled => ledger.reserved_fiat >= OpenBuyCost(orders, Len(orders))

HasOpenOrder(price, side) ==
    \E i \in 1..Len(orders) :
        /\ orders[i].in_book /\ orders[i].level = price
        /\ orders[i].side = side /\ IsOpen(orders[i])

\* C4: when no handler is waiting to run, every level in WAITING_FOR_BUY_FILL
\* (WAITING_FOR_SELL_FILL) has an OPEN buy (sell) order attached
WaitingLevelsHaveOpenOrder ==
    HandlersIdle =>
        \A p \in PriceDom :
            /\ grid.grid_levels[p].state = "WAITING_FOR_BUY_FILL" => HasOpenOrder(p, "BUY")
            /\ grid.grid_levels[p].state = "WAITING_FOR_SELL_FILL" => HasOpenOrder(p, "SELL")

\* C5: no order was placed at a level where can_place_order was false at the
\* moment of placement
NoIneligiblePlacement == ~ghost.placed_ineligible

\* C6: ORDER_FILLED is delivered at most once per order and subscriber, and an
\* order whose ORDER_FILLED is about to be delivered is CLOSED in the OrderBook
FillDeliveredOnceAfterBookUpdate ==
    /\ \A i, j \in 1..Len(tasks) :
          (/\ tasks[i].ev = "ORDER_FILLED" /\ tasks[j].ev = "ORDER_FILLED"
           /\ tasks[i].cb = tasks[j].cb /\ tasks[i].payload.obj = tasks[j].payload.obj)
          => i = j
    /\ \A i \in 1..Len(tasks) :
          (tasks[i].ev = "ORDER_FILLED" /\ tasks[i].st = "ready")
          => IsFilled(orders[tasks[i].payload.obj])

\* C7: for every fill, once the OrderManager's handler has run (and reserved
\* and placed the paired order) the BalanceTracker's handler for the same fill
\* has completed
LedgerAppliesFillFirst ==
    \A i, j \in 1..Len(tasks) :
        (/\ tasks[i].pub = tasks[j].pub
         /\ tasks[i].cb = "OM" /\ tasks[j].cb = "BT"
         /\ tasks[i].st # "ready")
        => tasks[j].st = "done"

LedgerAppliesFillFirstWitness ==
    \E i, j \in 1..Len(tasks) :
        /\ tasks[i].pub = tasks[j].pub
        /\ tasks[i].cb = "OM" /\ tasks[j].cb = "BT"
        /\ tasks[i].st = "suspended" /\ tasks[j].st = "done"
        /\ ledger.reserved_crypto > 0

\* the publisher is about to resume from the publish it awaits
PublishReturns == MainAtHead /\ ghost.awaiting # 0

\* C8 (as claimed): when publish returns every callback of the event has run
\* to completion
PublishAwaitsCompletion ==
    PublishReturns =>
        \A i \in 1..Len(tasks) :
            tasks[i].pub = ghost.awaiting => tasks[i].st \in {"done", "failed"}

\* C8 (amended): when publish returns every callback of the event has been
\* started as a task and has run to its first suspension; a callback that
\* awaits a notification may still be suspended there
PublishAwaitsStart ==
    PublishReturns =>
        /\ \A i \in 1..Len(tasks) :
              tasks[i].pub = ghost.awaiting => tasks[i].st # "ready"
        /\ \A k \in 1..Len(OrderFilledSubscribers(cfg)) :
              \E i \in 1..Len(tasks) :
                  tasks[i].pub = ghost.awaiting /\ tasks[i].cb = OrderFilledSubscribers(cfg)[k]

PublishAwaitsStartWitness ==
    /\ PublishReturns
    /\ \E i \in 1..Len(tasks) : tasks[i].pub = ghost.awaiting /\ tasks[i].st = "suspended"

\* C9: when a callback of an event has raised, the publisher resumes as usual
\* and every other callback of that event has been invoked, none cancelled,
\* with the same payload
RaisingCallbackIsContained ==
    \A i, j \in 1..Len(tasks) :
        (tasks[i].st = "failed" /\ tasks[j].pub = tasks[i].pub)
        => /\ tasks[j].payload = tasks[i].payload
           /\ tasks[j].st # "cancelled"
           /\ (PublishReturns /\ ghost.awaiting = tasks[i].pub) => tasks[j].st # "ready"

RaisingCallbackIsContainedWitness ==
    /\ PublishReturns
    /\ \E i, j \in 1..Len(tasks) :
          /\ tasks[i].st = "failed" /\ tasks[i].pub = ghost.awaiting
          /\ tasks[j].pub = tasks[i].pub /\ tasks[j].cb = "OM" /\ tasks[j].st = "suspended"

\* C10: no ORDER_FILLED / ORDER_CANCELLED handler of the OrderManager, the
\* BalanceTracker or the strategy ends with an exception
HandlersReturnNormally ==
    \A i \in 1..Len(tasks) :
        tasks[i].cb \in {"BT", "OM", "OMC", "GS"} => tasks[i].st # "failed"

\* the amount the orders os[from..Len(os)] that entered the book reserve: fiat
\* for the buys, crypto for the sells
RECURSIVE ReservedBy(_, _, _)
ReservedBy(os, from, side) ==
    IF from > Len(os) THEN 0
    ELSE ReservedBy(os, from + 1, side)
         + (IF os[from].in_book /\ os[from].order_type = "LIMIT" /\ os[from].side = side
            THEN (IF side = "BUY" THEN Value(os[from].amount, os[from].price)
                  ELSE os[from].amount)
            ELSE 0)

\* the levels initialize_grid_orders attempts at current_price
InitialBuyLevels(c, g, current_price) ==
    {q \in Range(g.sorted_buy_grids) :
        /\ q < current_price
        /\ ~(Abs(q - g.central_price) * ToleranceDen < g.central_price)
        /\ CanPlaceOrder(c, g.grid_levels[q].state, "BUY")}
InitialSellLevels(c, g, current_price) ==
    {q \in Range(g.sorted_sell_grids) :
        /\ q > current_price
        /\ ~(Abs(q - g.central_price) * ToleranceDen < g.central_price)
        /\ CanPlaceOrder(c, g.grid_levels[q].state, "SELL")}

\* C11: in a step in which the venue refuses a limit order at level p, the
\* OrderManager sends ORDER_FAILED and goes on; no order for p is created or
\* added to the book, nothing is reserved for it, and the level's state and
\* pairing are as the attempt found them: in the fill handler the grid is the
\* one complete_order left and ledger and book are untouched; in the initial
\* placement p is unchanged, the reservations made are exactly those of the
\* orders that entered the book, and every other level is still attempted
ExecutionFailureLeavesState ==
    [][ghost'.rejections # ghost.rejections =>
        LET p == ghost'.rejected
            payload == tasks[Head(ready)].payload
            new == (Len(orders) + 1)..Len(orders')
        IN /\ ghost'.order_failed = ghost.order_failed + 1
           /\ \A i \in new : orders'[i].level # p
           /\ HeadTask("OM") =>
                 /\ ledger' = ledger /\ Len(orders') = Len(orders)
                 /\ grid' = CompleteOrder(cfg, grid, GetGridLevelForOrder(orders, payload),
                                          payload.side)
                 /\ tasks'[Head(ready)].st = "suspended"
           /\ MainAtHead =>
                 /\ grid'.grid_levels[p] = grid.grid_levels[p]
                 /\ ledger'.reserved_fiat - ledger.reserved_fiat
                        = ReservedBy(orders', Len(orders) + 1, "BUY")
                 /\ ledger'.reserved_crypto - ledger.reserved_crypto
                        = ReservedBy(orders', Len(orders) + 1, "SELL")
                 /\ \A q \in (InitialBuyLevels(cfg, grid, bar.close)
                               \cup InitialSellLevels(cfg, grid, bar.close)) \ {p} :
                        \E i \in new : orders'[i].price = q /\ orders'[i].order_type = "LIMIT"
    ]_vars

\* the paired sell of a filled buy was refused and the handler returned
ExecutionFailureFillWitness ==
    /\ ghost.rejected # 0 /\ ghost.order_failed > 0
    /\ \E i \in 1..Len(tasks) :
          /\ tasks[i].cb = "OM" /\ tasks[i].st = "suspended" /\ tasks[i].payload.side = "BUY"
          /\ ~HasOpenOrder(ghost.rejected, "SELL")
          /\ ghost.rejected > tasks[i].payload.price
          /\ grid.grid_levels[tasks[i].payload.price].paired_sell_level = 0

\* an order of that side at level p went through add_order
Attached(os, p, side) ==
    \E i \in 1..Len(os) : os[i].in_book /\ os[i].level = p /\ os[i].side = side

ReleaseEmptiesReservations ==
    ghost.release.n > 0 =>
        LET before == ghost.release.before
            after == ghost.release.after
        IN /\ after.reserved_fiat = 0 /\ after.reserved_crypto = 0
           /\ after.balance = before.balance + before.reserved_fiat
           /\ after.crypto_balance = before.crypto_balance + before.reserved_crypto
           /\ after.total_fees = before.total_fees

ReleaseEmptiesReservationsWitness ==
    /\ ghost.release.n > 0
    /\ ghost.release.before.reserved_fiat > 0 /\ ghost.release.before.reserved_crypto > 0

OrderStatuses == {"OPEN", "CLOSED", "CANCELED", "UNKNOWN"}

\* update_order_status applied to the book os leaves every entry in place and
\* changes at most the status of one order with that identifier
StatusUpdateInPlace(os) ==
    \A order_id \in {os[i].id : i \in 1..Len(os)} \cup {-99}, st \in OrderStatuses :
        LET r == UpdateOrderStatus(os, order_id, st)
        IN /\ Len(r) = Len(os)
           /\ \A i \in 1..Len(os) :
                 /\ r[i] = [os[i] EXCEPT !.status = r[i].status]
                 /\ r[i] # os[i] => (os[i].id = order_id /\ os[i].in_book /\ r[i].status = st)
           /\ Cardinality({i \in 1..Len(os) : r[i] # os[i]}) <= 1

BalancesChangeOnlyByLedgerCalls ==
    [][ledger' # ledger =>
        \/ HeadTask("BT")
        \/ LET base == IF ghost'.release.n # ghost.release.n
                        THEN ghost'.release.after ELSE ledger
               fiat == ReservedBy(orders', Len(orders) + 1, "BUY")
               crypto == ReservedBy(orders', Len(orders) + 1, "SELL")
           IN ledger' = [base EXCEPT !.balance = @ - fiat, !.reserved_fiat = @ + fiat,
                                     !.crypto_balance = @ - crypto,
                                     !.reserved_crypto = @ + crypto]
    ]_vars

SimpleGridCycle ==
    {<<"READY_TO_BUY", "WAITING_FOR_BUY_FILL">>, <<"WAITING_FOR_BUY_FILL", "READY_TO_SELL">>,
     <<"READY_TO_SELL", "WAITING_FOR_SELL_FILL">>, <<"WAITING_FOR_SELL_FILL", "READY_TO_BUY">>}

\* C16: in SimpleGrid every change of a level's state is a step of the cycle
\* READY_TO_BUY -> WAITING_FOR_BUY_FILL -> READY_TO_SELL -> WAITING_FOR_SELL_FILL
\* -> READY_TO_BUY, and no level is in READY_TO_BUY_OR_SELL (the steps of the
\* dynamic boundary handling, which build new levels, are left aside)
SimpleGridStatesFollowCycle ==
    [][(cfg.strategy_type = "SIMPLE_GRID" /\ ~(pc = "risk" /\ cfg.risk_mode = "DYNAMIC")) =>
        \A p \in PriceDom :
            /\ grid'.grid_levels[p].state # "READY_TO_BUY_OR_SELL"
            /\ grid'.grid_levels[p].state # grid.grid_levels[p].state
                  => <<grid.grid_levels[p].state, grid'.grid_levels[p].state>> \in SimpleGridCycle
    ]_vars

\* the level whose state complete_order sets next to the completed one
PairedOf(g, price, order_side) ==
    IF order_side = "BUY" THEN g.grid_levels[price].paired_sell_level
    ELSE g.grid_levels[price].paired_buy_level

PairedTarget(order_side) == IF order_side = "BUY" THEN "READY_TO_SELL" ELSE "READY_TO_BUY"

\* C17: in HedgedGrid, when the OrderManager handles a fill of a grid order,
\* complete_order moves the level to READY_TO_BUY_OR_SELL for either side and
\* the paired sell level (BUY) to READY_TO_SELL, the paired buy level (SELL)
\* to READY_TO_BUY, and changes nothing else; after the handler the level is
\* READY_TO_BUY_OR_SELL and the paired level is in its new state unless the
\* handler has placed the next order on it
HedgedCompleteOrder ==
    [][LET payload == tasks[Head(ready)].payload
           level == GetGridLevelForOrder(orders, payload)
           paired == PairedOf(grid, level, payload.side)
           g1 == CompleteOrder(cfg, grid, level, payload.side)
       IN (/\ cfg.strategy_type = "HEDGED_GRID"
           /\ HeadTask("OM") /\ ready' = Tail(ready) /\ level # 0) =>
            /\ g1.grid_levels[level].state = "READY_TO_BUY_OR_SELL"
            /\ paired # 0 => g1.grid_levels[paired].state = PairedTarget(payload.side)
            /\ \A q \in PriceDom :
                  /\ q \notin {level, paired} => g1.grid_levels[q] = grid.grid_levels[q]
                  /\ g1.grid_levels[q].paired_buy_level = grid.grid_levels[q].paired_buy_level
                  /\ g1.grid_levels[q].paired_sell_level = grid.grid_levels[q].paired_sell_level
            /\ grid'.grid_levels[level].state = "READY_TO_BUY_OR_SELL"
            /\ paired # 0 =>
                  IF \E i \in (Len(orders) + 1)..Len(orders') :
                        orders'[i].in_book /\ orders'[i].level = paired
                  THEN grid'.grid_levels[paired].state \in
                          {"WAITING_FOR_BUY_FILL", "WAITING_FOR_SELL_FILL"}
                  ELSE grid'.grid_levels[paired].state = PairedTarget(payload.side)
    ]_vars

\* a HedgedGrid level whose fill the OrderManager has handled while it was
\* paired: the level is READY_TO_BUY_OR_SELL and its paired buy level READY_TO_BUY
HedgedCompleteOrderWitness ==
    /\ cfg.strategy_type = "HEDGED_GRID"
    /\ \E i \in 1..Len(tasks) :
          LET level == GetGridLevelForOrder(orders, tasks[i].payload)
          IN /\ tasks[i].cb = "OM" /\ tasks[i].st \in {"done", "suspended"}
             /\ tasks[i].payload.side = "SELL" /\ level # 0
             /\ grid.grid_levels[level].state = "READY_TO_BUY_OR_SELL"
             /\ grid.grid_levels[level].paired_buy_level # 0
             /\ grid.grid_levels[grid.grid_levels[level].paired_buy_level].state = "READY_TO_BUY"

\* C18: the pairing references are symmetric - level a names b as its paired
\* sell level exactly when b names a as its paired buy level
PairingSymmetric ==
    \A a, b \in PriceDom :
        (grid.grid_levels[a].state # "NONE" /\ grid.grid_levels[b].state # "NONE") =>
            (grid.grid_levels[a].paired_sell_level = b
                <=> grid.grid_levels[b].paired_buy_level = a)

\* the fee recorded on a filled order (order.fee): the replay backend builds
\* its orders without one
OrderFee(payload) == 0

\* C19: SimpleGrid round trip - when the OrderManager handles the fill of the
\* sell at l_sell that was placed for the buy filled at l_buy, l_buy is back in
\* READY_TO_BUY, and the strategy's handler of that fill raises cumulative_profit
\* by (l_sell - l_buy) * quantity less the fees of the two orders
RoundTripReturnsLevel ==
    [][LET payload == tasks[Head(ready)].payload
           l_sell == GetGridLevelForOrder(orders, payload)
           l_buy == grid.grid_levels[l_sell].paired_buy_level
           after == StrategyOnOrderFilled(strat, grid', orders', payload).s
       IN (/\ cfg.strategy_type = "SIMPLE_GRID"
           /\ HeadTask("OM") /\ ready' = Tail(ready)
           /\ payload.side = "SELL" /\ payload.order_type = "LIMIT"
           /\ l_sell # 0 /\ l_buy # 0) =>
            /\ grid'.grid_levels[l_buy].state = "READY_TO_BUY"
            /\ HeadTask("GS")' /\ tasks'[Head(ready')].payload = payload
            /\ after.cumulative_profit =
                  strat.cumulative_profit + Value(payload.filled, l_sell - l_buy)
                     - 2 * OrderFee(payload)
    ]_vars

\* C20: when the OrderManager handles the fill of a grid buy, the level's order
\* is completed and, if get_paired_sell_level finds a level that can take a
\* sell, one limit sell of the filled quantity is booked at that level, that
\* quantity of crypto is reserved and the two levels are paired; otherwise
\* nothing is placed and the ledger is left alone
BuyFillPlacesPairedSell ==
    [][LET payload == tasks[Head(ready)].payload
           level == GetGridLevelForOrder(orders, payload)
           g1 == CompleteOrder(cfg, grid, level, "BUY")
           paired == GetPairedSellLevel(cfg, g1, level)
           n == Len(orders)
       IN (/\ HeadTask("OM") /\ ready' = Tail(ready)
           /\ payload.side = "BUY" /\ level # 0) =>
            /\ grid'.grid_levels[level].state = g1.grid_levels[level].state
            /\ IF paired # 0 /\ CanPlaceOrder(cfg, g1.grid_levels[paired].state, "SELL")
               THEN /\ Len(orders') = n + 1
                    /\ orders'[n + 1].in_book /\ orders'[n + 1].level = paired
                    /\ orders'[n + 1].side = "SELL" /\ orders'[n + 1].order_type = "LIMIT"
                    /\ orders'[n + 1].price = paired /\ orders'[n + 1].status = "OPEN"
                    /\ orders'[n + 1].amount = payload.filled
                    /\ ledger' = [ledger EXCEPT !.crypto_balance = @ - payload.filled,
                                                !.reserved_crypto = @ + payload.filled]
                    /\ grid'.grid_levels[paired].state = "WAITING_FOR_SELL_FILL"
                    /\ grid'.grid_levels[level].paired_sell_level = paired
                    /\ grid'.grid_levels[paired].paired_buy_level = level
               ELSE /\ Len(orders') = n
                    /\ ledger' = ledger
    ]_vars

\* a handled buy fill whose paired sell is open in the book for the filled
\* quantity, with that quantity reserved
BuyFillPlacesPairedSellWitness ==
    \E i \in 1..Len(tasks), k \in 1..Len(orders) :
        LET level == GetGridLevelForOrder(orders, tasks[i].payload)
        IN /\ tasks[i].cb = "OM" /\ tasks[i].st \in {"done", "suspended"}
           /\ tasks[i].payload.side = "BUY" /\ level # 0
           /\ orders[k].in_book /\ orders[k].side = "SELL" /\ IsOpen(orders[k])
           /\ orders[k].level = grid.grid_levels[level].paired_sell_level
           /\ orders[k].amount = tasks[i].payload.filled
           /\ grid.grid_levels[orders[k].level].paired_buy_level = level
           /\ ledger.reserved_crypto >= orders[k].amount

InitialPurchase(os) ==
    {k \in 1..Len(os) : os[k].order_type = "MARKET" /\ os[k].side = "BUY"}

InitializedOnceAtTrigger ==
    [][
       /\ (pc = "idle" /\ strat.bars' = strat.bars + 1) =>
            (LET crossed == /\ strat.bars > 0
                            /\ \/ /\ bar.close <= strat.trigger_price
                                  /\ strat.trigger_price <= bar'.close
                               \/ bar.close = strat.trigger_price
             IN IF strat.grid_orders_initialized
                THEN /\ orders' = orders /\ pc' = "simulate"
                     /\ strat'.grid_orders_initialized
                ELSE /\ orders = <<>> /\ tasks = <<>>
                     /\ IF crossed
                        THEN /\ pc' = "initial_fill"
                             /\ InitialPurchase(orders') = {1} /\ Len(orders') = 1
                             /\ orders'[1].price = bar'.close
                        ELSE /\ pc' = "idle" /\ orders' = <<>> /\ tasks' = <<>>
                             /\ ~strat'.grid_orders_initialized)
       /\ (pc = "initial_fill" /\ pc' # pc) =>
            (/\ bar' = bar /\ strat'.grid_orders_initialized
             /\ \E k \in 1..Len(orders') : orders'[k].order_type = "LIMIT"
             /\ \A k \in 1..Len(orders') :
                   (orders'[k].order_type = "LIMIT") => (k > Len(orders)))
       /\ Cardinality(InitialPurchase(orders')) <= 1
       /\ (strat.grid_orders_initialized => strat'.grid_orders_initialized)
       /\ ((~strat'.grid_orders_initialized /\ pc' # "initial_fill") => (orders' = <<>>))
    ]_vars

\* the initial purchase is made at the third row, the second one not having
\* crossed the trigger
InitializedOnceAtTriggerWitness ==
    /\ cfg.trading_mode = "BACKTEST" /\ pc = "initial_fill" /\ strat.bars = 3
    /\ InitialPurchase(orders) = {1}

\* the grid initialize_grid_orders finds: the one in place at the first
\* placement, the one just rebuilt around the price at a dynamic restart
PlacementGrid ==
    IF pc = "risk" THEN InitializeGridsAndLevels(cfg, bar.close) ELSE grid

\* the ledger initialize_grid_orders finds
PlacementLedger ==
    IF pc = "risk" THEN CancelAllPendingOrders(W0).ledger ELSE ledger

\* C23: in a step in which initialize_grid_orders places orders, every new
\* order is a limit order at a level of its side that can_place_order admits;
\* a buy is strictly below the current price and not within 0.01% of the
\* central price, a sell strictly above the current price; the buys that
\* entered the book reserve their quantity times their price in fiat, the
\* sells their quantity in crypto
InitialPlacementEligible ==
    [][
       (/\ MainAtHead /\ Len(orders') > Len(orders)
        /\ orders'[Len(orders')].order_type = "LIMIT") =>
           LET g == PlacementGrid
               current_price == bar'.close
               new == {i \in (Len(orders) + 1)..Len(orders') :
                          orders'[i].order_type = "LIMIT"}
           IN /\ \A i \in new :
                    LET order == orders'[i]
                    IN /\ order.filled = 0 /\ order.amount > 0 /\ order.level = order.price
                       /\ CanPlaceOrder(cfg, g.grid_levels[order.price].state, order.side)
                       /\ order.side = "BUY" =>
                             /\ InSeq(order.price, g.sorted_buy_grids)
                             /\ order.price < current_price
                             /\ Abs(order.price - g.central_price) * ToleranceDen
                                    >= g.central_price
                       /\ order.side = "SELL" =>
                             /\ InSeq(order.price, g.sorted_sell_grids)
                             /\ order.price > current_price
                       /\ \A j \in new : (j # i /\ orders'[j].side = order.side)
                                             => (orders'[j].price # order.price)
              /\ ledger'.reserved_fiat
                    = PlacementLedger.reserved_fiat + ReservedBy(orders', Len(orders) + 1, "BUY")
              /\ ledger'.reserved_crypto
                    = PlacementLedger.reserved_crypto + ReservedBy(orders', Len(orders) + 1, "SELL")
    ]_vars

\* the first placement was made around a central price that is a level: the
\* central level and the levels on the wrong side of the price got no order,
\* a buy below and a sell above the price are open
InitialPlacementEligibleWitness ==
    /\ pc = "simulate" /\ strat.grid_orders_initialized /\ ghost.release.n = 0
    /\ pending = GetOpenOrders(orders)
    /\ InSeq(grid.central_price, grid.sorted_buy_grids)
    /\ grid.central_price < bar.close
    /\ \A i \in 1..Len(orders) : orders[i].price # grid.central_price
    /\ \E i, j \in 1..Len(orders) :
          /\ orders[i].order_type = "LIMIT" /\ orders[i].side = "BUY" /\ orders[i].in_book
          /\ orders[j].order_type = "LIMIT" /\ orders[j].side = "SELL" /\ orders[j].in_book
          /\ ledger.reserved_fiat >= Value(orders[i].amount, orders[i].price)

\* the close of the row being processed is at or beyond an enabled threshold
ThresholdReached ==
    \/ cfg.tp_enabled /\ bar.close >= cfg.tp_threshold
    \/ cfg.sl_enabled /\ bar.close <= cfg.sl_threshold

StaticReplay == cfg.trading_mode = "BACKTEST" /\ cfg.risk_mode # "DYNAMIC"

ThresholdStep ==
    /\ (StaticReplay /\ pc = "risk" /\ pc' # pc) =>
          IF ThresholdReached
          THEN /\ pc' = "tp_fill" /\ Len(orders') = Len(orders) + 1
               /\ LET order == orders'[Len(orders')]
                  IN /\ order.order_type = "MARKET" /\ order.side = "SELL"
                     /\ order.price = bar.close
                     /\ order.amount = ledger.crypto_balance + ledger.reserved_crypto
                     /\ order.filled = order.amount
                     /\ \E i \in (Len(tasks) + 1)..Len(tasks') :
                           /\ tasks'[i].ev = "ORDER_FILLED"
                           /\ tasks'[i].payload.obj = Len(orders')
          ELSE pc' = "idle" /\ orders' = orders /\ strat'.running
    /\ (StaticReplay /\ pc = "tp_fill" /\ pc' # pc) =>
          (ghost'.stop_published /\ pc' = "done" /\ ~strat'.running)
    /\ (ghost'.stop_published # ghost.stop_published) => (pc = "tp_fill")
    /\ (StaticReplay /\ pc = "done") => (pc' = "done" /\ strat'.bars = strat.bars)

TakeProfitOrStopLossOrders ==
    {k \in 1..Len(orders) : orders[k].order_type = "MARKET" /\ orders[k].side = "SELL"}

DynamicReplay == cfg.trading_mode = "BACKTEST" /\ cfg.risk_mode = "DYNAMIC"

\* the close of the row is at or beyond a boundary of the grid
BoundaryCrossed == bar.close >= MaxGrid(grid) \/ bar.close <= MinGrid(grid)

\* C26: in dynamic mode no take-profit or stop-loss sell is ever booked,
\* STOP_BOT is never published, and the risk handling of every row, whatever
\* its close, hands the loop on to the next row with the strategy running
DynamicNeverStops ==
    /\ [](DynamicReplay =>
            /\ ~ghost.stop_published /\ pc # "tp_fill"
            /\ TakeProfitOrStopLossOrders = {})
    /\ [][(DynamicReplay /\ pc = "risk" /\ pc' # pc) =>
            /\ pc' = "idle" /\ strat'.running
            /\ ready' # <<>> /\ Head(ready') = 0
            /\ strat'.bars = strat.bars /\ strat'.last_price = bar.close]_vars

\* the close of a row was at the take-profit threshold and the top of the
\* grid, the grid was restarted and the loop is about to read the next row
DynamicNeverStopsWitness ==
    /\ DynamicReplay /\ pc = "idle" /\ MainAtHead /\ strat.running
    /\ strat.bars = 2 /\ strat.grid_orders_initialized
    /\ bar.close >= cfg.tp_threshold /\ ghost.release.n > 0

\* the risk handling of this row restarts the grid from the top
TopBreach ==
    /\ DynamicReplay /\ pc = "risk" /\ MainAtHead
    /\ bar.close >= MaxGrid(grid) /\ GetTotalBalanceValue(ledger, bar.close) > 0

\* C27: the restart of a top breach leaves every order that was open
\* CANCELED, and such an order is never filled or reopened afterwards; the
\* reservations are released before the new grid is placed, so that after the
\* restart the two pools hold what the new orders reserved and nothing else
TopBreachCancelsAndReleases ==
    /\ [][(TopBreach /\ pc' # pc) =>
            /\ \A i \in 1..Len(orders) :
                  IF orders[i].in_book /\ IsOpen(orders[i])
                  THEN orders'[i] = [orders[i] EXCEPT !.status = "CANCELED"]
                  ELSE orders'[i] = orders[i]
            /\ \A i \in (Len(orders) + 1)..Len(orders') : orders'[i].order_type = "LIMIT"
            /\ ledger'.reserved_fiat = ReservedBy(orders', Len(orders) + 1, "BUY")
            /\ ledger'.reserved_crypto = ReservedBy(orders', Len(orders) + 1, "SELL")]_vars
    /\ [][\A i \in 1..Len(orders) :
             (orders[i].status = "CANCELED") => (orders'[i] = orders[i])]_vars
    /\ []((pc = "simulate") =>
             \A k \in 1..Len(ghost.snapshot) : orders[ghost.snapshot[k]].status # "CANCELED")

\* a restart cancelled an open buy and an open sell and released fiat and
\* crypto
TopBreachCancelsAndReleasesWitness ==
    /\ DynamicReplay /\ pc = "idle" /\ ghost.release.n > 0
    /\ ghost.release.before.reserved_fiat > 0 /\ ghost.release.before.reserved_crypto > 0
    /\ ghost.release.after.reserved_fiat = 0 /\ ghost.release.after.reserved_crypto = 0
    /\ \E i, j \in 1..Len(orders) :
          /\ orders[i].status = "CANCELED" /\ orders[i].side = "BUY"
          /\ orders[j].status = "CANCELED" /\ orders[j].side = "SELL"

\* C28: the restart of a top breach at price p leaves a grid whose central
\* price is p, with levels below and above p, so that a following row closing
\* at p is not a top breach again
RestartCentersGridOnPrice ==
    [][(TopBreach /\ pc' # pc) =>
          /\ grid'.central_price = bar.close
          /\ MinGrid(grid') < bar.close /\ bar.close < MaxGrid(grid')]_vars

\* C29: the risk handling of a row whose close crosses a boundary of the
\* grid, restart or extension, leaves cumulative_profit and total_fees as
\* they were
BoundaryHandlingKeepsTotals ==
    [][(DynamicReplay /\ pc = "risk" /\ pc' # pc /\ BoundaryCrossed) =>
          /\ strat'.cumulative_profit = strat.cumulative_profit
          /\ ledger'.total_fees = ledger.total_fees]_vars

\* a restart was made with a profit and fees on record
BoundaryHandlingKeepsTotalsWitness ==
    /\ DynamicReplay /\ pc = "idle" /\ ghost.release.n > 0
    /\ bar.close >= MaxGrid(grid)
    /\ strat.cumulative_profit # 0 /\ ledger.total_fees > 0

\* the risk handling of this row extends the grid downward
BottomBreach ==
    /\ DynamicReplay /\ pc = "risk" /\ MainAtHead
    /\ bar.close < MaxGrid(grid) /\ bar.close <= MinGrid(grid) /\ ledger.balance > 0

\* the levels the step adds and the fiat slice of each
NewLevels == Range(grid'.price_grids) \ Range(grid.price_grids)
DollarPerGrid == ledger.balance \div Max(1, cfg.num_grids \div 4)
ExistingSpacing ==
    LET sorted_grids == SortedSeq(Range(grid.price_grids))
    IN sorted_grids[2] - sorted_grids[1]

\* no crypto is sold, at most N/2 levels are added, all below the old minimum
\* and spaced by the existing spacing, each READY_TO_BUY
ExtensionAddsLevels ==
    /\ GetAdjustedCryptoBalance(ledger') = GetAdjustedCryptoBalance(ledger)
    /\ \A i \in (Len(orders) + 1)..Len(orders') : orders'[i].side = "BUY"
    /\ Cardinality(NewLevels) <= cfg.num_grids \div 2
    /\ \A p \in NewLevels :
          /\ p < MinGrid(grid) /\ p > 0
          /\ (p + ExistingSpacing) \in Range(grid'.price_grids)
          /\ grid'.grid_levels[p].state = "READY_TO_BUY"
          /\ InSeq(p, grid'.sorted_buy_grids)
    /\ \A p \in Range(grid.price_grids) : grid'.grid_levels[p] = grid.grid_levels[p]

\* every new level names the closest higher level as its paired sell level
ExtensionPairsLevels ==
    \A p \in NewLevels :
        LET higher == {q \in Range(grid'.price_grids) : q > p}
        IN /\ grid'.grid_levels[p].paired_sell_level \in higher
           /\ \A q \in higher : grid'.grid_levels[p].paired_sell_level <= q

\* every new level has its slice of the available fiat set aside
ExtensionFundsLevels ==
    /\ ledger'.reserved_fiat = ledger.reserved_fiat + Cardinality(NewLevels) * DollarPerGrid
    /\ ledger'.balance = ledger.balance - Cardinality(NewLevels) * DollarPerGrid

---------------------------------------------------------------------------
\* OrderStatusTracker

IgnoredReports ==
    {r \in RemoteReports : r.status = "UNKNOWN" \/ (r.status = "OPEN" /\ r.partial)}

\* C32: when the venue's answer for a polled order has no status, or says OPEN
\* with a part filled, the tracker publishes nothing and changes neither the
\* book nor the grid nor the ledger; the order stays open, so the next poll
\* asks for it again, and the polling task keeps running
IgnoredReportChangesNothing ==
    [][
        (tracker.monitoring_task = "running" /\ pending # <<>> /\ pending' # pending) =>
           \A r \in IgnoredReports :
              TrackerResponse(r) =>
                 (/\ orders' = orders /\ grid' = grid /\ ledger' = ledger
                  /\ tasks' = tasks /\ ready' = ready /\ ghost'.pubs = ghost.pubs
                  /\ orders'[Head(pending)].in_book /\ IsOpen(orders'[Head(pending)])
                  /\ tracker'.monitoring_task = "running")
    ]_vars

\* a poll's answers have been handled in part, nothing was ever published and
\* every polled order is still open: the answers so far were only logged
IgnoredReportChangesNothingWitness ==
    /\ pending # <<>> /\ Len(pending) < Len(GetOpenOrders(orders))
    /\ ghost.pubs = 0 /\ tracker.monitoring_task = "running"

---------------------------------------------------------------------------
\* Live ticker

\* on_ticker_update has been called and has not returned
CallbackExecuting == pc # "idle" \/ InSeq(0, ready)

\* the exchange service calls on_ticker_update with a price
TickerDelivered == strat'.bars = strat.bars + 1

---------------------------------------------------------------------------
\* Orders and levels

\* the OPEN orders attached to the level at a price (GridLevel.orders)
OpenOrdersAt(price) ==
    {i \in 1..Len(orders) :
        orders[i].in_book /\ orders[i].level = price /\ IsOpen(orders[i])}

\* C34: no grid level has more than one OPEN order attached
OneOpenOrderPerLevel ==
    \A p \in PriceDom \ {0} : Cardinality(OpenOrdersAt(p)) <= 1

\* the orders add_order has put into the book
InBook == {i \in 1..Len(orders) : orders[i].in_book}

\* C35: no two orders of the book share an identifier, so the lookup of an
\* order's grid level (by object, then by identifier) gives the level the
\* order was added with, and update_order_status with its identifier changes
\* that order
OrderIdsIdentifyOrders ==
    \A i \in InBook :
        /\ \A j \in InBook : orders[j].id = orders[i].id => j = i
        /\ GetGridLevelForOrder(orders, Payload(orders, i)) = orders[i].level
        /\ UpdateOrderStatus(orders, orders[i].id, "CANCELED")
              = [orders EXCEPT ![i].status = "CANCELED"]

\* C36: every limit order the backend returned is in the book, OPEN orders of
\* the book are attached to a level of the grid, and a step that pairs a level
\* anew also records an order at the level it is paired to
AcceptedOrdersAreRecorded ==
    [][
        /\ \A i \in 1..Len(orders') :
              orders'[i].order_type = "LIMIT" => orders'[i].in_book
        /\ \A p \in PriceDom :
              LET was == grid.grid_levels[p].paired_sell_level
                  is == grid'.grid_levels[p].paired_sell_level
              IN (grid'.price_grids = grid.price_grids /\ is # was /\ is # 0) =>
                    \E i \in Len(orders) + 1..Len(orders') :
                        /\ orders'[i].in_book /\ orders'[i].side = "SELL"
                        /\ orders'[i].level = is
                        /\ grid'.grid_levels[is].state = "WAITING_FOR_SELL_FILL"
    ]_vars

\* a grid buy order that has been filled
FilledGridBuys ==
    {i \in InBook : /\ orders[i].side = "BUY" /\ orders[i].order_type = "LIMIT"
                    /\ orders[i].level # 0 /\ IsFilled(orders[i])}

\* no take-profit or stop-loss sale has emptied the portfolio
NothingSoldAtMarket ==
    \A k \in 1..Len(orders) :
        ~(orders[k].side = "SELL" /\ orders[k].order_type = "MARKET")

\* C37: when the replay has ended and every fill handler has run, each filled
\* grid buy has been followed by a limit sell of the quantity it bought
FilledBuysGetSell ==
    (pc = "done" /\ HandlersIdle /\ NothingSoldAtMarket) =>
        \A i \in FilledGridBuys :
            \E j \in (i + 1)..Len(orders) :
                /\ orders[j].side = "SELL" /\ orders[j].order_type = "LIMIT"
                /\ orders[j].amount = orders[i].filled

\* a level with an order pending
OrderPending(g, price) ==
    g.grid_levels[price].state \in {"WAITING_FOR_BUY_FILL", "WAITING_FOR_SELL_FILL"}

\* C38: in HedgedGrid, when the OrderManager handles a fill of a grid order
\* and the level paired to the order's level has an order pending,
\* complete_order leaves the state of that paired level as it is
CompletionSparesPendingPairedLevel ==
    [][
        LET payload == tasks[Head(ready)].payload
            level == GetGridLevelForOrder(orders, payload)
            paired == PairedOf(grid, level, payload.side)
            g1 == CompleteOrder(cfg, grid, level, payload.side)
        IN (/\ cfg.strategy_type = "HEDGED_GRID"
            /\ HeadTask("OM") /\ ready' = Tail(ready)
            /\ payload.order_type = "LIMIT" /\ level # 0
            /\ paired # 0 /\ paired # level /\ OrderPending(grid, paired)) =>
               g1.grid_levels[paired].state = grid.grid_levels[paired].state
    ]_vars

\* C39: once a take-profit or stop-loss sale has been executed and STOP_BOT
\* published, no limit order of the book is OPEN and nothing is reserved
StopLeavesNothingOpen ==
    (StaticReplay /\ ghost.stop_published) =>
        /\ \A i \in InBook : orders[i].order_type = "LIMIT" => ~IsOpen(orders[i])
        /\ ledger.reserved_fiat = 0 /\ ledger.reserved_crypto = 0

---------------------------------------------------------------------------
\* Replay: fills of a bar

\* the replay loop starts the next row
NextRow == cfg.trading_mode = "BACKTEST" /\ strat'.bars = strat.bars + 1

\* a limit order that the step fills
FilledByStep(i) ==
    /\ orders[i].order_type = "LIMIT" /\ IsOpen(orders[i])
    /\ i <= Len(orders') /\ IsFilled(orders'[i])

\* only orders of the snapshot that simulate_order_fills took when it started
\* on the bar are filled, and only by simulate_order_fills
FillsComeFromSnapshot ==
    \A i \in 1..Len(orders) :
        FilledByStep(i) =>
            /\ pc = "simulate" /\ InSeq(i, ghost.snapshot) /\ Crossed(orders[i])
            /\ \A j \in 1..Len(orders) : FilledByStep(j) => j = i

\* C40 as stated: fills come from the bar's snapshot, and when the loop starts
\* the next row every handler of the fills so far has completed
HandlersCompleteBeforeNextRow ==
    [][
        /\ cfg.trading_mode = "BACKTEST" => FillsComeFromSnapshot
        /\ NextRow => \A i \in 1..Len(tasks) : tasks[i].st \in {"done", "failed"}
    ]_vars

\* C40 (amended): in replay only orders that were open when
\* simulate_order_fills started on the bar are filled in the bar, one per
\* step, so an order placed by a fill handler of the bar is not filled in it;
\* when the loop starts the next row every fill handler has run up to the
\* notification it awaits last, and may still be suspended there
HandlersStartedBeforeNextRow ==
    [][
        /\ cfg.trading_mode = "BACKTEST" => FillsComeFromSnapshot
        /\ NextRow => \A i \in 1..Len(tasks) : tasks[i].st # "ready"
    ]_vars

\* the bar has been gone through and an order placed by one of its fill
\* handlers, at a level the bar crossed, is still open
HandlersStartedBeforeNextRowWitness ==
    /\ cfg.trading_mode = "BACKTEST" /\ pc = "risk"
    /\ \E i \in InBook :
          /\ ~InSeq(i, ghost.snapshot) /\ orders[i].order_type = "LIMIT"
          /\ IsOpen(orders[i]) /\ Crossed(orders[i])
    /\ \E k \in 1..Len(ghost.snapshot) : IsFilled(orders[ghost.snapshot[k]])

====
